---- MODULE Spec2Model ----
(***************************************************************************)
(* olu: a schemaless entity store with a property graph derived from the   *)
(* reference-typed fields of the stored documents.                         *)
(*                                                                         *)
(* The module models three objects of the repository:                      *)
(*   - SQLiteStore   (tables entities, graph_edges, entity_sequences),     *)
(*   - JSONFileStore (one file per document plus _next_id.json),           *)
(*   - IndexedGraph  (adjacency and reverse maps, graph.data codec).       *)
(* Every method is one action; the concurrent Create of the two stores is  *)
(* split at its lock operations.                                           *)
(***************************************************************************)
EXTENDS Integers, Sequences, FiniteSets, TLC

VARIABLES
    object,            \* which object was constructed
    entities,          \* SQLiteStore: table entities, (entity_type,id) -> data
    graph_edges,       \* SQLiteStore: table graph_edges, a set of rows
    entity_sequences,  \* SQLiteStore: table entity_sequences, entity_type -> next_id
    files,             \* JSONFileStore: <entity>/<id>.json, (entity,id) -> document
    nextIdFile,        \* JSONFileStore: <entity>/_next_id.json, entity -> next_id
    last,              \* history: the store call that returned last
    issued,            \* history: ids handed out by Create or accepted by Save
                       \*          before the call recorded in last
    pc,                \* concurrent Create: where each caller stands
    localNextID,       \* concurrent Create: each caller's local nextID
    idLocks,           \* JSONFileStore.idLocks: entity -> holder of the mutex
    mu,                \* SQLiteStore.mu: holder of the write lock
    ret,               \* concurrent Create: the id each caller got back
    adjacency,         \* IndexedGraph.adjacency: node -> (neighbour -> relationship)
    reverse,           \* IndexedGraph.reverse: node -> (neighbour -> relationship)
    graphFile,         \* the lines of graph.data
    gLast,             \* history: the graph call that returned last
    config,            \* the server's configuration
    local,             \* concurrent calls: each caller's local variable
    tmpFile,           \* the lines of graph.data.tmp
    gmu,               \* IndexedGraph.mu: the writer and the readers holding it
    cache              \* Server.cache: cache key -> cached response

sqlVars   == <<entities, graph_edges, entity_sequences>>
fileVars  == <<files, nextIdFile>>
histVars  == <<last, issued>>
concVars  == <<pc, localNextID, idLocks, mu, ret>>
graphVars == <<adjacency, reverse, graphFile, gLast>>
srvVars   == <<config, local, tmpFile, gmu, cache>>
vars      == <<object, sqlVars, fileVars, histVars, concVars, graphVars, srvVars>>

----------------------------------------------------------------------------
(* Bounds of the model *)

\* largest document id a store hands out or accepts
MaxId == 3
\* number of callers that run Create concurrently
MaxCreators == 3
\* largest id of a graph node
MaxNode == 2
\* largest id of a node of the graphs FindPath searches
MaxPathNode == 3
\* largest number of edges the graph calls build up
MaxEdges == 2
\* largest maxDepth passed to FindPath
MaxDepthArg == 3

Entities == {"users"}
Ids      == 1..MaxId

----------------------------------------------------------------------------
(* JSON values as Go's encoding/json sees them *)

Null       == [k |-> "null"]
Str(s)     == [k |-> "str", s |-> s]
\* a number carries its Go type and its value in halves, so 3 is h = 6 and
\* 1.5 is h = 3
IntNum(n)  == [k |-> "num", t |-> "int", h |-> 2 * n]
FloatNum(h) == [k |-> "num", t |-> "float", h |-> h]
Obj(o)     == [k |-> "obj", o |-> o]

EmptyMap == [x \in {} |-> Null]

Put(m, key, v) == [x \in (DOMAIN m) \cup {key} |-> IF x = key THEN v ELSE m[x]]
Del(m, key)    == [x \in (DOMAIN m) \ {key} |-> m[x]]

\* Go's int(v) of a float64: truncation toward zero
TruncToInt(h) == IF h >= 0 THEN h \div 2 ELSE -((-h) \div 2)

\* json.Marshal followed by json.Unmarshal into map[string]interface{}:
\* every number comes back as a float64
RECURSIVE JsonRoundTrip(_)
JsonRoundTrip(v) ==
    IF v.k = "num" THEN FloatNum(v.h)
    ELSE IF v.k = "obj" THEN Obj([x \in DOMAIN v.o |-> JsonRoundTrip(v.o[x])])
    ELSE v

MarshalDoc(d) == [x \in DOMAIN d |-> JsonRoundTrip(d[x])]

\* {"type":"REF","entity":e,"id":n}
RefObj(e, idNum) == Obj([type |-> Str("REF"), entity |-> Str(e), id |-> idNum])

\* all the orders in which a range over a Go map can visit the keys S
Orderings(S) ==
    {o \in [1..Cardinality(S) -> S] : \A i, j \in 1..Cardinality(S) :
                                          i # j => o[i] # o[j]}

----------------------------------------------------------------------------
(* Inputs of the store calls *)

DocPlain     == [name |-> Str("A")]
DocRef(i)    == [name |-> Str("E"), manager |-> RefObj("users", IntNum(i))]
\* the same reference as it arrives from an HTTP body: the id is a float64
DocRefFloat  == [name |-> Str("E"), manager |-> RefObj("users", FloatNum(4))]

StoreDocs == {DocPlain, DocRef(1), DocRefFloat}

StorePatches == {EmptyMap,
                 [manager |-> Null],
                 [manager |-> RefObj("users", FloatNum(4))]}

----------------------------------------------------------------------------
(* History of the store calls *)

NoCall == [op |-> "none", entity |-> "", id |-> 0, err |-> "ok", c |-> 0]

\* the ids handed out or accepted up to and including the call in last
IssuedNow ==
    IF last.op \in {"Create", "Save"} /\ last.err = "ok"
    THEN [issued EXCEPT ![last.entity] = @ \cup {last.id}]
    ELSE issued

Returned(op, e, id, err, c) ==
    /\ last' = [op |-> op, entity |-> e, id |-> id, err |-> err, c |-> c]
    /\ issued' = IssuedNow

----------------------------------------------------------------------------
(* SQLiteStore *)

Edge(se, sid, te, tid, rel) ==
    [source_entity |-> se, source_id |-> sid,
     target_entity |-> te, target_id |-> tid, relationship_name |-> rel]

\* the id the upsert of Create returns: 1 on the first insert of the row,
\* next_id + 1 on conflict
SqlNextID(e) ==
    IF e \in DOMAIN entity_sequences THEN entity_sequences[e] + 1 ELSE 1

\* the fields of data for which syncGraphEdges inserts a row
SyncedField(data, key) ==
    /\ key # "id"
    /\ data[key].k = "obj"
    /\ "type" \in DOMAIN data[key].o
    /\ data[key].o["type"] = Str("REF")
    /\ "entity" \in DOMAIN data[key].o
    /\ data[key].o["entity"].k = "str"
    /\ data[key].o["entity"].s # ""
    /\ "id" \in DOMAIN data[key].o
    /\ data[key].o["id"].k = "num"
    /\ TruncToInt(data[key].o["id"].h) # 0

\* the table graph_edges after syncGraphEdges(tx, sourceEntity, sourceID, data)
syncGraphEdges(edges, sourceEntity, sourceID, data) ==
    {r \in edges : ~(r.source_entity = sourceEntity /\ r.source_id = sourceID)}
    \cup {Edge(sourceEntity, sourceID, data[key].o["entity"].s,
               TruncToInt(data[key].o["id"].h), key) :
            key \in {f \in DOMAIN data : SyncedField(data, f)}}

SqlExists(e, id) == <<e, id>> \in DOMAIN entities

\* the transaction of Create: sequence upsert, INSERT of the row, graph sync,
\* commit; a primary-key conflict of the INSERT rolls everything back
SqlCreateTx(e, data) ==
    LET newID    == SqlNextID(e)
        dataCopy == Put(data, "id", IntNum(newID))
    IN  IF SqlExists(e, newID)
        THEN UNCHANGED sqlVars
        ELSE /\ entity_sequences' = Put(entity_sequences, e, newID)
             /\ entities' = Put(entities, <<e, newID>>, MarshalDoc(dataCopy))
             /\ graph_edges' = syncGraphEdges(graph_edges, e, newID, dataCopy)

SqlCreate(e, data) ==
    /\ SqlNextID(e) <= MaxId
    /\ SqlCreateTx(e, data)
    /\ IF SqlExists(e, SqlNextID(e))
       THEN Returned("Create", e, 0, "error", SqlNextID(e))
       ELSE Returned("Create", e, SqlNextID(e), "ok", SqlNextID(e))
    /\ UNCHANGED <<object, srvVars, fileVars, concVars, graphVars>>

\* an Update that writes data over the stored document and keeps the other
\* fields of it
SqlUpdateTx_KeepsFields(e, id, data) ==
    LET dataCopy == Put([key \in (DOMAIN entities[<<e, id>>]) \cup DOMAIN data |->
                            IF key \in DOMAIN data THEN data[key]
                            ELSE entities[<<e, id>>][key]],
                        "id", IntNum(id))
    IN  IF ~SqlExists(e, id)
        THEN UNCHANGED sqlVars
        ELSE /\ entities' = Put(entities, <<e, id>>, MarshalDoc(dataCopy))
             /\ graph_edges' = syncGraphEdges(graph_edges, e, id, dataCopy)
             /\ UNCHANGED entity_sequences

\* the transaction of Update: the UPDATE of the row, graph sync, commit; no
\* affected row rolls back
SqlUpdateTx(e, id, data) ==
    LET dataCopy == Put(data, "id", IntNum(id))
    IN  IF ~SqlExists(e, id)
        THEN UNCHANGED sqlVars
        ELSE /\ entities' = Put(entities, <<e, id>>, MarshalDoc(dataCopy))
             /\ graph_edges' = syncGraphEdges(graph_edges, e, id, dataCopy)
             /\ UNCHANGED entity_sequences

SqlUpdate(e, id, data) ==
    /\ SqlUpdateTx(e, id, data)
    /\ Returned("Update", e, id, IF SqlExists(e, id) THEN "ok" ELSE "ErrNotFound",
                SqlNextID(e))
    /\ UNCHANGED <<object, srvVars, fileVars, concVars, graphVars>>

\* the merge loop of Patch: "id" is skipped, nil deletes, anything else is set
SqlMerge(existing, updates) ==
    [key \in ((DOMAIN existing) \ {f \in DOMAIN updates : f # "id" /\ updates[f] = Null})
             \cup {f \in DOMAIN updates : f # "id" /\ updates[f] # Null} |->
        IF key \in DOMAIN updates /\ key # "id" THEN updates[key] ELSE existing[key]]

\* the transaction of Patch: the SELECT of the row, the merge, the UPDATE,
\* graph sync, commit; no row rolls back
SqlPatchTx(e, id, updates) ==
    IF ~SqlExists(e, id)
    THEN UNCHANGED sqlVars
    ELSE LET existing == Put(SqlMerge(entities[<<e, id>>], updates), "id", IntNum(id))
         IN  /\ entities' = Put(entities, <<e, id>>, MarshalDoc(existing))
             /\ graph_edges' = syncGraphEdges(graph_edges, e, id, existing)
             /\ UNCHANGED entity_sequences

SqlPatch(e, id, updates) ==
    /\ SqlPatchTx(e, id, updates)
    /\ Returned("Patch", e, id, IF SqlExists(e, id) THEN "ok" ELSE "ErrNotFound",
                SqlNextID(e))
    /\ UNCHANGED <<object, srvVars, fileVars, concVars, graphVars>>

\* a clean-up that only looks at the source columns
DeleteEdgesOf_SourceOnly(edges, e, id) ==
    {r \in edges : ~(r.source_entity = e /\ r.source_id = id)}

\* DELETE FROM graph_edges WHERE source is (e,id) OR target is (e,id)
DeleteEdgesOf(edges, e, id) ==
    {r \in edges :
        /\ ~(r.source_entity = e /\ r.source_id = id)
        /\ ~(r.target_entity = e /\ r.target_id = id)}

SqlDelete(e, id) ==
    /\ IF ~SqlExists(e, id)
       THEN /\ UNCHANGED sqlVars
            /\ Returned("Delete", e, id, "ErrNotFound", SqlNextID(e))
       ELSE /\ entities' = Del(entities, <<e, id>>)
            /\ graph_edges' = DeleteEdgesOf(graph_edges, e, id)
            /\ UNCHANGED entity_sequences
            /\ Returned("Delete", e, id, "ok", SqlNextID(e))
    /\ UNCHANGED <<object, srvVars, fileVars, concVars, graphVars>>

\* Save that leaves the sequence row as it finds it
SqlSaveSequence_Stale(e, id) ==
    IF e \in DOMAIN entity_sequences THEN entity_sequences[e] ELSE 0

\* the upsert of Save: VALUES (entity, id+1), on conflict
\* next_id = MAX(next_id, excluded.next_id + 1)
SqlSaveSequence(e, id) ==
    IF e \in DOMAIN entity_sequences
    THEN IF entity_sequences[e] >= (id + 1) + 1
         THEN entity_sequences[e] ELSE (id + 1) + 1
    ELSE id + 1

\* the transaction of Save on a key that is free: sequence upsert, INSERT of
\* the row, graph sync, commit
SqlSaveTx(e, id, data) ==
    LET dataCopy == Put(data, "id", IntNum(id))
    IN  /\ entity_sequences' = Put(entity_sequences, e, SqlSaveSequence(e, id))
        /\ entities' = Put(entities, <<e, id>>, MarshalDoc(dataCopy))
        /\ graph_edges' = syncGraphEdges(graph_edges, e, id, dataCopy)

SqlSave(e, id, data) ==
    /\ IF SqlExists(e, id)
       THEN /\ UNCHANGED sqlVars
            /\ Returned("Save", e, id, "ErrAlreadyExists", SqlNextID(e))
       ELSE /\ SqlSaveTx(e, id, data)
            /\ Returned("Save", e, id, "ok", SqlNextID(e))
    /\ UNCHANGED <<object, srvVars, fileVars, concVars, graphVars>>

NextSQL ==
    \/ \E e \in Entities, d \in StoreDocs : SqlCreate(e, d)
    \/ \E e \in Entities, id \in Ids, d \in StoreDocs : SqlUpdate(e, id, d)
    \/ \E e \in Entities, id \in Ids, u \in StorePatches : SqlPatch(e, id, u)
    \/ \E e \in Entities, id \in Ids : SqlDelete(e, id)
    \/ \E e \in Entities, id \in Ids, d \in StoreDocs : SqlSave(e, id, d)

Procs == 1..MaxCreators

NoGraphCall == [op |-> "none"]

\* DefaultConfig(): the graph is enabled, PATCH stores nulls
DefaultConfig == [GraphEnabled |-> TRUE, PatchNullBehavior |-> "store"]

\* graph.data does not exist
NoFile == [exists |-> FALSE, lines |-> <<>>]

\* the state after construction: empty tables, an empty data directory,
\* free locks, an empty graph and no graph.data
InitState ==
    /\ last = NoCall
    /\ issued = [e \in Entities |-> {}]
    /\ pc = [p \in Procs |-> "idle"]
    /\ localNextID = [p \in Procs |-> 0]
    /\ idLocks = [e \in Entities |-> 0]
    /\ mu = 0
    /\ ret = [p \in Procs |-> 0]
    /\ adjacency = EmptyMap
    /\ reverse = EmptyMap
    /\ gLast = NoGraphCall
    /\ local = [p \in Procs |-> EmptyMap]
    /\ tmpFile = NoFile
    /\ gmu = [writer |-> 0, readers |-> {}]
    /\ cache = EmptyMap

\* the objects on their own run under the default configuration
InitRest == InitState /\ config = DefaultConfig

InitStores ==
    /\ entities = EmptyMap
    /\ graph_edges = {}
    /\ entity_sequences = EmptyMap
    /\ files = EmptyMap
    /\ nextIdFile = EmptyMap
    /\ graphFile = NoFile
    /\ InitRest

InitSQL == object = "SQLiteStore" /\ InitStores

SpecSQL == InitSQL /\ [][NextSQL]_vars

----------------------------------------------------------------------------
(* JSONFileStore *)

\* an existence check that never fails
FileExists_Assumed(e, id) == TRUE

FileExists(e, id) == <<e, id>> \in DOMAIN files

\* the value NextID reads from _next_id.json, 1 when the file is missing
FileNextID(e) == IF e \in DOMAIN nextIdFile THEN nextIdFile[e] ELSE 1

\* the files after Create: NextID moves _next_id.json, then the document is
\* written under the id read
FileCreateWrite(e, data) ==
    LET id == FileNextID(e)
    IN  /\ nextIdFile' = Put(nextIdFile, e, id + 1)
        /\ files' = Put(files, <<e, id>>, MarshalDoc(Put(data, "id", IntNum(id))))

FileCreate(e, data) ==
    LET id == FileNextID(e)
    IN  /\ id <= MaxId
        /\ FileCreateWrite(e, data)
        /\ Returned("Create", e, id, "ok", id)
        /\ UNCHANGED <<object, srvVars, sqlVars, concVars, graphVars>>

\* an Update that writes the caller's document as it came
FileUpdateWrite_ClientId(e, id, data) ==
    IF ~FileExists(e, id)
    THEN UNCHANGED fileVars
    ELSE /\ files' = Put(files, <<e, id>>, MarshalDoc(data))
         /\ UNCHANGED nextIdFile

\* the files after Update: nothing without the file, else data with its id
\* set, marshalled over the file
FileUpdateWrite(e, id, data) ==
    IF ~FileExists(e, id)
    THEN UNCHANGED fileVars
    ELSE /\ files' = Put(files, <<e, id>>, MarshalDoc(Put(data, "id", IntNum(id))))
         /\ UNCHANGED nextIdFile

FileUpdate(e, id, data) ==
    /\ FileUpdateWrite(e, id, data)
    /\ Returned("Update", e, id, IF FileExists(e, id) THEN "ok" ELSE "ErrNotFound",
                FileNextID(e))
    /\ UNCHANGED <<object, srvVars, sqlVars, concVars, graphVars>>

\* the merge loop of Patch: "id" is skipped, every other key is assigned
FileMerge(existing, patchData) ==
    [key \in (DOMAIN existing) \cup ((DOMAIN patchData) \ {"id"}) |->
        IF key \in DOMAIN patchData /\ key # "id" THEN patchData[key]
        ELSE existing[key]]

FilePatch(e, id, patchData) ==
    /\ IF ~FileExists(e, id)
       THEN /\ UNCHANGED fileVars
            /\ Returned("Patch", e, id, "ErrNotFound", FileNextID(e))
       ELSE LET existing == FileMerge(files[<<e, id>>], patchData)
            IN  /\ files' = Put(files, <<e, id>>,
                                MarshalDoc(Put(existing, "id", IntNum(id))))
                /\ UNCHANGED nextIdFile
                /\ Returned("Patch", e, id, "ok", FileNextID(e))
    /\ UNCHANGED <<object, srvVars, sqlVars, concVars, graphVars>>

FileDelete(e, id) ==
    /\ IF ~FileExists(e, id)
       THEN /\ UNCHANGED fileVars
            /\ Returned("Delete", e, id, "ErrNotFound", FileNextID(e))
       ELSE /\ files' = Del(files, <<e, id>>)
            /\ UNCHANGED nextIdFile
            /\ Returned("Delete", e, id, "ok", FileNextID(e))
    /\ UNCHANGED <<object, srvVars, sqlVars, concVars, graphVars>>

\* the files after Save on a key that is free: data with its id set,
\* marshalled into <id>.json
FileSaveWrite(e, id, data) ==
    /\ files' = Put(files, <<e, id>>, MarshalDoc(Put(data, "id", IntNum(id))))
    /\ UNCHANGED nextIdFile

FileSave(e, id, data) ==
    /\ IF FileExists(e, id)
       THEN /\ UNCHANGED fileVars
            /\ Returned("Save", e, id, "ErrAlreadyExists", FileNextID(e))
       ELSE /\ FileSaveWrite(e, id, data)
            /\ Returned("Save", e, id, "ok", FileNextID(e))
    /\ UNCHANGED <<object, srvVars, sqlVars, concVars, graphVars>>

NextFile ==
    \/ \E e \in Entities, d \in StoreDocs : FileCreate(e, d)
    \/ \E e \in Entities, id \in Ids, d \in StoreDocs : FileUpdate(e, id, d)
    \/ \E e \in Entities, id \in Ids, u \in StorePatches : FilePatch(e, id, u)
    \/ \E e \in Entities, id \in Ids : FileDelete(e, id)
    \/ \E e \in Entities, id \in Ids, d \in StoreDocs : FileSave(e, id, d)

InitFile == object = "JSONFileStore" /\ InitStores

SpecFile == InitFile /\ [][NextFile]_vars

----------------------------------------------------------------------------
(* The Store interface: NewStore builds one of the two registered stores *)

InitStore == object \in {"SQLiteStore", "JSONFileStore"} /\ InitStores

NextStore ==
    \/ object = "SQLiteStore" /\ NextSQL
    \/ object = "JSONFileStore" /\ NextFile

SpecStore == InitStore /\ [][NextStore]_vars

\* the id the next Create of entity e would return
NextCreateID(e) ==
    IF object = "SQLiteStore" THEN SqlNextID(e) ELSE FileNextID(e)

----------------------------------------------------------------------------
(* The calls of the Store interface on either store, Get included *)

\* largest id the calls of this section create or name
MaxCallId == 2

CallIds == 1..MaxCallId

\* a document that carries an id of its own
DocOwnId == [email |-> Str("b@x"), id |-> FloatNum(14)]

CallDocs == {DocPlain, DocRef(1), DocOwnId}

CallPatches == {EmptyMap, [manager |-> Null]}

\* SELECT data ... Scan, json.Unmarshal
SqlGetResult(e, id) ==
    IF SqlExists(e, id)
    THEN [err |-> "ok", doc |-> MarshalDoc(entities[<<e, id>>])]
    ELSE [err |-> "ErrNotFound", doc |-> EmptyMap]

SqlGet(e, id) ==
    /\ Returned("Get", e, id, SqlGetResult(e, id).err, SqlNextID(e))
    /\ UNCHANGED <<object, srvVars, sqlVars, fileVars, concVars, graphVars>>

\* os.ReadFile, json.Unmarshal
FileGetResult(e, id) ==
    IF <<e, id>> \in DOMAIN files
    THEN [err |-> "ok", doc |-> MarshalDoc(files[<<e, id>>])]
    ELSE [err |-> "ErrNotFound", doc |-> EmptyMap]

FileGet(e, id) ==
    /\ Returned("Get", e, id, FileGetResult(e, id).err, FileNextID(e))
    /\ UNCHANGED <<object, srvVars, sqlVars, fileVars, concVars, graphVars>>

\* what store.Get(e, id) returns in the current state
GetResult(e, id) ==
    IF object = "SQLiteStore" THEN SqlGetResult(e, id) ELSE FileGetResult(e, id)

StoreGet(e, id) ==
    \/ object = "SQLiteStore" /\ SqlGet(e, id)
    \/ object = "JSONFileStore" /\ FileGet(e, id)

StoreCreate(e, data) ==
    \/ object = "SQLiteStore" /\ SqlCreate(e, data)
    \/ object = "JSONFileStore" /\ FileCreate(e, data)

StoreUpdate(e, id, data) ==
    \/ object = "SQLiteStore" /\ SqlUpdate(e, id, data)
    \/ object = "JSONFileStore" /\ FileUpdate(e, id, data)

StorePatch(e, id, updates) ==
    \/ object = "SQLiteStore" /\ SqlPatch(e, id, updates)
    \/ object = "JSONFileStore" /\ FilePatch(e, id, updates)

StoreDelete(e, id) ==
    \/ object = "SQLiteStore" /\ SqlDelete(e, id)
    \/ object = "JSONFileStore" /\ FileDelete(e, id)

StoreSave(e, id, data) ==
    \/ object = "SQLiteStore" /\ SqlSave(e, id, data)
    \/ object = "JSONFileStore" /\ FileSave(e, id, data)

NextCalls ==
    \/ \E e \in Entities, d \in {DocPlain, DocRef(1)} :
          NextCreateID(e) <= MaxCallId /\ StoreCreate(e, d)
    \/ \E e \in Entities, id \in CallIds : StoreGet(e, id)
    \/ \E e \in Entities, id \in CallIds, d \in CallDocs : StoreUpdate(e, id, d)
    \/ \E e \in Entities, id \in CallIds, u \in CallPatches : StorePatch(e, id, u)
    \/ \E e \in Entities, id \in CallIds : StoreDelete(e, id)
    \/ \E e \in Entities, id \in CallIds : StoreSave(e, id, DocPlain)

SpecCalls == InitStore /\ [][NextCalls]_vars

\* documents and partials that carry an id of their own
OwnIdDocs == {DocPlain, DocOwnId}

OwnIdPatches == {[id |-> FloatNum(18)], [id |-> Null, name |-> Str("B")]}

NextOwnId ==
    \/ \E e \in Entities, d \in OwnIdDocs :
          NextCreateID(e) <= MaxCallId /\ StoreCreate(e, d)
    \/ \E e \in Entities, id \in CallIds, d \in OwnIdDocs : StoreUpdate(e, id, d)
    \/ \E e \in Entities, id \in CallIds, u \in OwnIdPatches : StorePatch(e, id, u)
    \/ \E e \in Entities, id \in CallIds : StoreDelete(e, id)
    \/ \E e \in Entities, id \in CallIds, d \in OwnIdDocs : StoreSave(e, id, d)

SpecOwnId == InitStore /\ [][NextOwnId]_vars

----------------------------------------------------------------------------
(* The transactions of SQLiteStore, one statement at a time.  A mutating    *)
(* method takes s.mu, begins a transaction, runs its statements on the      *)
(* transaction, and commits; `defer tx.Rollback()` undoes the statements    *)
(* when the method returns before the commit.  Any statement and the commit *)
(* itself can fail.  The variables entities, graph_edges, entity_sequences  *)
(* are the committed tables; local[p].tables is what the transaction of     *)
(* caller p has written so far.                                             *)

\* largest id the transactions create or name
MaxTxId == 1

TxIds == 1..MaxTxId

\* the callers of the store
TxCallers == {1, 2}

Tables == [entities |-> entities, graph_edges |-> graph_edges,
           entity_sequences |-> entity_sequences]

\* a document with two reference fields
DocTwoRefs == [manager |-> RefObj("users", IntNum(1)),
               peer |-> RefObj("users", IntNum(2))]

TxDocs == {DocPlain, DocRef(1), DocTwoRefs}

Stmt(kind, key) == [s |-> kind, key |-> key]

\* the statements of syncGraphEdges: the DELETE of the rows of the source,
\* then one INSERT per reference field in the order of the range over data
SyncStmts(order) ==
    <<Stmt("DeleteSourceEdges", "")>>
        \o [i \in 1..Len(order) |-> Stmt("InsertEdge", order[i])]

SyncOrders(data) == Orderings({f \in DOMAIN data : SyncedField(data, f)})

\* a call: the method, its arguments, the document it will write and the
\* statements it will run, one call per order of the range in syncGraphEdges
CallsOf(op, e, id, data, head) ==
    {[op |-> op, entity |-> e, id |-> id, data |-> data,
      stmts |-> head \o SyncStmts(o)] : o \in SyncOrders(data)}

CreateCalls ==
    UNION {CallsOf("Create", e, SqlNextID(e), Put(d, "id", IntNum(SqlNextID(e))),
                   <<Stmt("UpsertNext", ""), Stmt("Insert", "")>>) :
             e \in Entities, d \in TxDocs}

UpdateCalls ==
    UNION {CallsOf("Update", e[1], e[2], Put(d, "id", IntNum(e[2])),
                   <<Stmt("Update", "")>>) :
             e \in Entities \X TxIds, d \in TxDocs}

\* Patch merges into the row its SELECT returns; without a row the SELECT
\* fails and nothing is merged
PatchDoc(e, id, updates) ==
    IF SqlExists(e, id)
    THEN Put(SqlMerge(entities[<<e, id>>], updates), "id", IntNum(id))
    ELSE EmptyMap

PatchCalls ==
    UNION {CallsOf("Patch", e[1], e[2], PatchDoc(e[1], e[2], u),
                   <<Stmt("Select", ""), Stmt("Update", "")>>) :
             e \in Entities \X TxIds, u \in CallPatches}

DeleteCalls ==
    {[op |-> "Delete", entity |-> e, id |-> id, data |-> EmptyMap,
      stmts |-> <<Stmt("Delete", ""), Stmt("DeleteEdges", "")>>] :
        e \in Entities, id \in TxIds}

SaveCalls ==
    UNION {CallsOf("Save", e[1], e[2], Put(d, "id", IntNum(e[2])),
                   <<Stmt("UpsertMax", ""), Stmt("Insert", "")>>) :
             e \in Entities \X TxIds, d \in TxDocs}

TxCalls == CreateCalls \cup UpdateCalls \cup PatchCalls \cup DeleteCalls \cup SaveCalls

\* one statement run on the tables T: the tables it leaves and its error
ExecStmt(T, c, st) ==
    LET key == <<c.entity, c.id>>
    IN  CASE st.s = "UpsertNext" ->
               [tables |-> [T EXCEPT !.entity_sequences =
                              Put(@, c.entity,
                                  IF c.entity \in DOMAIN @ THEN @[c.entity] + 1 ELSE 1)],
                err |-> "ok"]
          [] st.s = "UpsertMax" ->
               [tables |-> [T EXCEPT !.entity_sequences =
                              Put(@, c.entity,
                                  IF c.entity \in DOMAIN @
                                  THEN IF @[c.entity] >= (c.id + 1) + 1
                                       THEN @[c.entity] ELSE (c.id + 1) + 1
                                  ELSE c.id + 1)],
                err |-> "ok"]
          [] st.s = "Insert" ->
               IF key \in DOMAIN T.entities
               THEN [tables |-> T, err |-> "error"]
               ELSE [tables |-> [T EXCEPT !.entities = Put(@, key, MarshalDoc(c.data))],
                     err |-> "ok"]
          [] st.s = "Select" ->
               [tables |-> T,
                err |-> IF key \in DOMAIN T.entities THEN "ok" ELSE "ErrNotFound"]
          [] st.s = "Update" ->
               IF key \notin DOMAIN T.entities
               THEN [tables |-> T, err |-> "ErrNotFound"]
               ELSE [tables |-> [T EXCEPT !.entities = Put(@, key, MarshalDoc(c.data))],
                     err |-> "ok"]
          [] st.s = "Delete" ->
               IF key \notin DOMAIN T.entities
               THEN [tables |-> T, err |-> "ErrNotFound"]
               ELSE [tables |-> [T EXCEPT !.entities = Del(@, key)], err |-> "ok"]
          [] st.s = "DeleteSourceEdges" ->
               [tables |-> [T EXCEPT !.graph_edges =
                              {r \in @ : ~(r.source_entity = c.entity
                                           /\ r.source_id = c.id)}],
                err |-> "ok"]
          [] st.s = "InsertEdge" ->
               [tables |-> [T EXCEPT !.graph_edges =
                              @ \cup {Edge(c.entity, c.id,
                                           c.data[st.key].o["entity"].s,
                                           TruncToInt(c.data[st.key].o["id"].h),
                                           st.key)}],
                err |-> "ok"]
          [] st.s = "DeleteEdges" ->
               [tables |-> [T EXCEPT !.graph_edges = DeleteEdgesOf(@, c.entity, c.id)],
                err |-> "ok"]

\* a statement that is run on the database handle and not on the transaction
StmtConn_EdgesOnDb(st) == IF st.s = "InsertEdge" THEN "db" ELSE "tx"

\* the handle a statement is run on: every statement of the five methods is
\* tx.ExecContext or tx.QueryRowContext
StmtConn(st) == "tx"

TxIdle == EmptyMap

TxFrame == UNCHANGED <<object, fileVars, graphVars, localNextID, idLocks, ret,
                       config, tmpFile, gmu, cache>>

\* s.mu.Lock(), the existence check of Save, BeginTx
TxBegin(p, c) ==
    /\ pc[p] = "idle"
    /\ mu = 0
    /\ c \in TxCalls
    /\ c.op = "Create" => c.id <= MaxTxId
    /\ IF c.op = "Save" /\ SqlExists(c.entity, c.id)
       THEN /\ Returned("Save", c.entity, c.id, "ErrAlreadyExists", SqlNextID(c.entity))
            /\ UNCHANGED <<pc, mu, local>>
       ELSE /\ pc' = [pc EXCEPT ![p] = "tx"]
            /\ mu' = p
            /\ local' = [local EXCEPT ![p] = [call |-> c, next |-> 1, tables |-> Tables]]
            /\ UNCHANGED histVars
    /\ UNCHANGED sqlVars
    /\ TxFrame

\* the method returns: the deferred Rollback and Unlock run
TxReturn(p, err) ==
    /\ Returned(local[p].call.op, local[p].call.entity,
                IF err = "ok" \/ local[p].call.op # "Create" THEN local[p].call.id ELSE 0,
                err, SqlNextID(local[p].call.entity))
    /\ pc' = [pc EXCEPT ![p] = "idle"]
    /\ mu' = 0
    /\ local' = [local EXCEPT ![p] = TxIdle]

\* the next statement of the method runs
TxStep(p) ==
    /\ pc[p] = "tx"
    /\ local[p].next <= Len(local[p].call.stmts)
    /\ LET st == local[p].call.stmts[local[p].next]
           r  == ExecStmt(local[p].tables, local[p].call, st)
           d  == ExecStmt(Tables, local[p].call, st)
       IN  /\ IF StmtConn(st) = "db" /\ d.err = "ok"
              THEN /\ entities' = d.tables.entities
                   /\ graph_edges' = d.tables.graph_edges
                   /\ entity_sequences' = d.tables.entity_sequences
              ELSE UNCHANGED sqlVars
           /\ IF r.err = "ok"
              THEN /\ local' = [local EXCEPT ![p].next = @ + 1,
                                             ![p].tables = r.tables]
                   /\ UNCHANGED <<pc, mu, histVars>>
              ELSE TxReturn(p, r.err)
    /\ TxFrame

\* the next statement, or the commit, fails for a reason outside the model
\* (disk full, busy database, cancelled context)
TxFail(p) ==
    /\ pc[p] = "tx"
    /\ TxReturn(p, "error")
    /\ UNCHANGED sqlVars
    /\ TxFrame

\* tx.Commit()
TxCommit(p) ==
    /\ pc[p] = "tx"
    /\ local[p].next > Len(local[p].call.stmts)
    /\ entities' = local[p].tables.entities
    /\ graph_edges' = local[p].tables.graph_edges
    /\ entity_sequences' = local[p].tables.entity_sequences
    /\ TxReturn(p, "ok")
    /\ TxFrame

\* Get takes the read lock of s.mu
TxGet(e, id) ==
    /\ mu = 0
    /\ SqlGet(e, id)

NextTx ==
    \/ \E p \in TxCallers : \E c \in TxCalls : TxBegin(p, c)
    \/ \E p \in TxCallers : TxStep(p)
    \/ \E p \in TxCallers : TxFail(p)
    \/ \E p \in TxCallers : TxCommit(p)
    \/ \E e \in Entities, id \in TxIds : TxGet(e, id)

SpecTx == InitSQL /\ [][NextTx]_vars

----------------------------------------------------------------------------
(* Concurrent Create: MaxCreators callers, each calling Create once on the   *)
(* same entity.  JSONFileStore.Create is NextID (under the entity's id lock) *)
(* followed by the write of the document; SQLiteStore.Create runs its        *)
(* transaction while holding s.mu.                                           *)

CreateEntity == "users"

CreatorDoc(p) == [name |-> Str("Concurrent User"), num |-> IntNum(p)]

\* NextID without the entity's id mutex
IDLockFree_Ignored(e) == TRUE

\* lock.Lock() of the entity's id mutex can return
IDLockFree(e) == idLocks[e] = 0

NextIDLock(p) ==
    /\ object = "JSONFileStore"
    /\ pc[p] = "idle"
    /\ IDLockFree(CreateEntity)
    /\ idLocks' = [idLocks EXCEPT ![CreateEntity] = p]
    /\ pc' = [pc EXCEPT ![p] = "locked"]
    /\ UNCHANGED <<object, srvVars, sqlVars, fileVars, histVars, localNextID, mu, ret, graphVars>>

NextIDRead(p) ==
    /\ pc[p] = "locked"
    /\ localNextID' = [localNextID EXCEPT ![p] = FileNextID(CreateEntity)]
    /\ pc' = [pc EXCEPT ![p] = "read"]
    /\ UNCHANGED <<object, srvVars, sqlVars, fileVars, histVars, idLocks, mu, ret, graphVars>>

NextIDWrite(p) ==
    /\ pc[p] = "read"
    /\ nextIdFile' = Put(nextIdFile, CreateEntity, localNextID[p] + 1)
    /\ pc' = [pc EXCEPT ![p] = "written"]
    /\ UNCHANGED <<object, srvVars, sqlVars, files, histVars, localNextID, idLocks, mu, ret,
                   graphVars>>

NextIDUnlock(p) ==
    /\ pc[p] = "written"
    /\ idLocks' = [idLocks EXCEPT ![CreateEntity] = 0]
    /\ pc' = [pc EXCEPT ![p] = "allocated"]
    /\ UNCHANGED <<object, srvVars, sqlVars, fileVars, histVars, localNextID, mu, ret, graphVars>>

CreateWriteFile(p) ==
    /\ pc[p] = "allocated"
    /\ files' = Put(files, <<CreateEntity, localNextID[p]>>,
                    MarshalDoc(Put(CreatorDoc(p), "id", IntNum(localNextID[p]))))
    /\ ret' = [ret EXCEPT ![p] = localNextID[p]]
    /\ pc' = [pc EXCEPT ![p] = "done"]
    /\ UNCHANGED <<object, srvVars, sqlVars, nextIdFile, histVars, localNextID, idLocks, mu,
                   graphVars>>

SqlLock(p) ==
    /\ object = "SQLiteStore"
    /\ pc[p] = "idle"
    /\ mu = 0
    /\ mu' = p
    /\ pc' = [pc EXCEPT ![p] = "locked"]
    /\ UNCHANGED <<object, srvVars, sqlVars, fileVars, histVars, localNextID, idLocks, ret,
                   graphVars>>

SqlCreateCommit(p) ==
    /\ object = "SQLiteStore"
    /\ pc[p] = "locked"
    /\ mu = p
    /\ SqlCreateTx(CreateEntity, CreatorDoc(p))
    /\ ret' = [ret EXCEPT ![p] =
                 IF SqlExists(CreateEntity, SqlNextID(CreateEntity))
                 THEN 0 ELSE SqlNextID(CreateEntity)]
    /\ pc' = [pc EXCEPT ![p] = "committed"]
    /\ UNCHANGED <<object, srvVars, fileVars, histVars, localNextID, idLocks, mu, graphVars>>

SqlUnlock(p) ==
    /\ pc[p] = "committed"
    /\ mu' = 0
    /\ pc' = [pc EXCEPT ![p] = "done"]
    /\ UNCHANGED <<object, srvVars, sqlVars, fileVars, histVars, localNextID, idLocks, ret,
                   graphVars>>

\* the store before the concurrent calls: new, or after one earlier Create
InitCreate ==
    /\ object \in {"SQLiteStore", "JSONFileStore"}
    /\ \E k \in 0..1 :
          LET seeded == IF k = 0 THEN EmptyMap
                        ELSE (<<CreateEntity, 1>> :>
                                 MarshalDoc(Put(DocPlain, "id", IntNum(1))))
          IN  /\ entities = IF object = "SQLiteStore" THEN seeded ELSE EmptyMap
              /\ entity_sequences = IF object = "SQLiteStore" /\ k = 1
                                    THEN (CreateEntity :> 1) ELSE EmptyMap
              /\ files = IF object = "JSONFileStore" THEN seeded ELSE EmptyMap
              /\ nextIdFile = IF object = "JSONFileStore" /\ k = 1
                              THEN (CreateEntity :> 2) ELSE EmptyMap
    /\ graph_edges = {}
    /\ graphFile = NoFile
    /\ InitRest

NextCreate ==
    \/ \E p \in Procs : NextIDLock(p)
    \/ \E p \in Procs : object = "JSONFileStore" /\ NextIDRead(p)
    \/ \E p \in Procs : NextIDWrite(p)
    \/ \E p \in Procs : NextIDUnlock(p)
    \/ \E p \in Procs : CreateWriteFile(p)
    \/ \E p \in Procs : SqlLock(p)
    \/ \E p \in Procs : SqlCreateCommit(p)
    \/ \E p \in Procs : SqlUnlock(p)

SpecCreate == InitCreate /\ [][NextCreate]_vars

----------------------------------------------------------------------------
(* IndexedGraph *)

\* The strings of the graph layer are sequences of tokens, so that the
\* separators ":" and " " of graph.data can be found in them again.
\* fmt.Sprintf("%s:%d", entity, id)
NodeID(entity, id) ==
    (IF entity = "" THEN <<>> ELSE <<entity>>) \o <<":", ToString(id)>>

GraphNodes == {NodeID("users", i) : i \in 1..MaxNode}

PathNodes == {NodeID("users", i) : i \in 1..MaxPathNode}

Relationships == {<<"manager">>, <<"peer">>}

Graph(adj, rev) == [adjacency |-> adj, reverse |-> rev]

EdgeCount(adj) ==
    Cardinality(UNION {{<<u, v>> : v \in DOMAIN adj[u]} : u \in DOMAIN adj})

\* "if _, exists := g.adjacency[n]; !exists { make both maps }"
EnsureNode(g, n) ==
    IF n \in DOMAIN g.adjacency
    THEN g
    ELSE Graph(Put(g.adjacency, n, EmptyMap), Put(g.reverse, n, EmptyMap))

AddEdgeTo(g, from, to, relationship) ==
    LET g1 == EnsureNode(EnsureNode(g, from), to)
    IN  Graph([g1.adjacency EXCEPT ![from] = Put(@, to, relationship)],
              [g1.reverse EXCEPT ![to] = Put(@, from, relationship)])

\* a removal that forgets the reverse map
RemoveEdgeFrom_AdjacencyOnly(g, from, to) ==
    Graph([n \in DOMAIN g.adjacency |->
              IF n = from THEN Del(g.adjacency[n], to) ELSE g.adjacency[n]],
          g.reverse)

RemoveEdgeFrom(g, from, to) ==
    Graph([n \in DOMAIN g.adjacency |->
              IF n = from THEN Del(g.adjacency[n], to) ELSE g.adjacency[n]],
          [n \in DOMAIN g.reverse |->
              IF n = to THEN Del(g.reverse[n], from) ELSE g.reverse[n]])

RemoveNodeFrom(g, nodeID) ==
    Graph([n \in DOMAIN g.adjacency \ {nodeID} |-> Del(g.adjacency[n], nodeID)],
          [n \in DOMAIN g.reverse \ {nodeID} |-> Del(g.reverse[n], nodeID)])

\* models.IsReference: an object with type "REF", an entity string and a
\* numeric id
IsReference(v) ==
    /\ v.k = "obj"
    /\ {"type", "entity", "id"} \subseteq DOMAIN v.o
    /\ v.o["type"].k = "str"
    /\ v.o["type"].s = "REF"
    /\ v.o["entity"].k = "str"
    /\ v.o["id"].k = "num"

\* the node "<ref.Entity>:<ref.ID>" of a reference
RefNodeID(v) ==
    NodeID(v.o["entity"].s,
           IF v.o["id"].t = "float" THEN TruncToInt(v.o["id"].h)
           ELSE v.o["id"].h \div 2)

RefKeys(data) == {key \in DOMAIN data : IsReference(data[key])}

\* the AddEdge calls of UpdateFromEntity, in the order the range over data
\* meets the referencing fields
RECURSIVE AddEdgesInOrder(_, _, _, _, _)
AddEdgesInOrder(g, nodeID, data, order, i) ==
    IF i > Len(order) THEN g
    ELSE AddEdgesInOrder(AddEdgeTo(g, nodeID, RefNodeID(data[order[i]]), <<order[i]>>),
                         nodeID, data, order, i + 1)

\* ---- graph.data ----

\* position of the first token tok in s, 0 if there is none
FirstIndex(s, tok) ==
    IF \E i \in 1..Len(s) : s[i] = tok
    THEN CHOOSE i \in 1..Len(s) : s[i] = tok /\ \A j \in 1..(i - 1) : s[j] # tok
    ELSE 0

\* strings.SplitN(s, ":", 2)
SplitN2(s) ==
    LET i == FirstIndex(s, ":")
    IN  IF i = 0 THEN <<s>>
        ELSE <<SubSeq(s, 1, i - 1), SubSeq(s, i + 1, Len(s))>>

\* strings.Split(s, " ")
RECURSIVE Split(_)
Split(s) ==
    LET i == FirstIndex(s, " ")
    IN  IF i = 0 THEN <<s>>
        ELSE <<SubSeq(s, 1, i - 1)>> \o Split(SubSeq(s, i + 1, Len(s)))

\* strings.TrimSpace
RECURSIVE TrimSpace(_)
TrimSpace(s) ==
    IF s = <<>> THEN s
    ELSE IF Head(s) = " " THEN TrimSpace(Tail(s))
    ELSE IF s[Len(s)] = " " THEN TrimSpace(SubSeq(s, 1, Len(s) - 1))
    ELSE s

\* strings.Join(parts, " ")
RECURSIVE Join(_)
Join(parts) ==
    IF parts = <<>> THEN <<>>
    ELSE IF Len(parts) = 1 THEN parts[1]
    ELSE parts[1] \o <<" ">> \o Join(Tail(parts))

\* one line of Save: "<nodeID>:<neighbor>:<relType> <neighbor>:<relType> ..."
SaveLine(adj, nodeID, order) ==
    nodeID \o <<":">>
           \o Join([i \in 1..Len(order) |-> order[i] \o <<":">> \o adj[nodeID][order[i]]])

\* the neighbours of one line of Load, from the i-th on
RECURSIVE LoadNeighbors(_, _, _, _)
LoadNeighbors(g, nodeID, neighbors, i) ==
    IF i > Len(neighbors) THEN g
    ELSE LET neighborParts == SplitN2(neighbors[i])
         IN  IF neighbors[i] # <<>> /\ Len(neighborParts) = 2
             THEN LoadNeighbors(AddEdgeTo(g, nodeID, neighborParts[1], neighborParts[2]),
                                nodeID, neighbors, i + 1)
             ELSE LoadNeighbors(g, nodeID, neighbors, i + 1)

LoadLine(g, text) ==
    LET line  == TrimSpace(text)
        parts == SplitN2(line)
    IN  IF line = <<>> \/ Len(parts) # 2 THEN g
        ELSE IF parts[2] = <<>> THEN EnsureNode(g, parts[1])
        ELSE LoadNeighbors(EnsureNode(g, parts[1]), parts[1], Split(parts[2]), 1)

RECURSIVE LoadLines(_, _, _)
LoadLines(g, lines, i) ==
    IF i > Len(lines) THEN g
    ELSE LoadLines(LoadLine(g, lines[i]), lines, i + 1)

\* ---- FindPath ----

PathFound(path) == [err |-> "ok", path |-> path]
PathError(err)  == [err |-> err, path |-> <<>>]

\* paths of the queue that FindPath drops without expanding them
TooDeep(path, maxDepth) == Len(path) > maxDepth

\* a loop that takes the path added last
Dequeue_Last(queue) ==
    [path |-> queue[Len(queue)], queue |-> SubSeq(queue, 1, Len(queue) - 1)]

\* path := queue[0]; queue = queue[1:]
Dequeue(queue) == [path |-> Head(queue), queue |-> Tail(queue)]

\* the results the breadth-first loop can produce from a queue and a visited
\* set; the range over adjacency[current] may visit the neighbours in any
\* order
RECURSIVE Search(_, _, _, _, _)
Search(adj, to, maxDepth, queue, visited) ==
    IF queue = <<>> THEN {PathError("no path found")}
    ELSE LET path    == Dequeue(queue).path
             rest    == Dequeue(queue).queue
             current == path[Len(path)]
             fresh   == DOMAIN adj[current] \ visited
         IN  IF TooDeep(path, maxDepth)
             THEN Search(adj, to, maxDepth, rest, visited)
             ELSE IF current = to THEN {PathFound(path)}
             ELSE UNION {Search(adj, to, maxDepth,
                                rest \o [i \in 1..Len(o) |-> Append(path, o[i])],
                                visited \cup fresh) : o \in Orderings(fresh)}

FindPathResults(adj, from, to, maxDepth) ==
    IF from \notin DOMAIN adj \/ to \notin DOMAIN adj
    THEN {PathError("node not found")}
    ELSE Search(adj, to, maxDepth, <<<<from>>>>, {from})

\* ---- the methods ----

AddNode(nodeID) ==
    LET g == EnsureNode(Graph(adjacency, reverse), nodeID)
    IN  /\ adjacency' = g.adjacency
        /\ reverse' = g.reverse
        /\ gLast' = [op |-> "AddNode"]
        /\ UNCHANGED <<object, srvVars, sqlVars, fileVars, histVars, concVars, graphFile>>

AddEdge(from, to, relationship) ==
    LET g == AddEdgeTo(Graph(adjacency, reverse), from, to, relationship)
    IN  /\ EdgeCount(g.adjacency) <= MaxEdges
        /\ adjacency' = g.adjacency
        /\ reverse' = g.reverse
        /\ gLast' = [op |-> "AddEdge"]
        /\ UNCHANGED <<object, srvVars, sqlVars, fileVars, histVars, concVars, graphFile>>

RemoveEdge(from, to) ==
    LET g == RemoveEdgeFrom(Graph(adjacency, reverse), from, to)
    IN  /\ adjacency' = g.adjacency
        /\ reverse' = g.reverse
        /\ gLast' = [op |-> "RemoveEdge"]
        /\ UNCHANGED <<object, srvVars, sqlVars, fileVars, histVars, concVars, graphFile>>

RemoveNode(nodeID) ==
    LET g == RemoveNodeFrom(Graph(adjacency, reverse), nodeID)
    IN  /\ adjacency' = g.adjacency
        /\ reverse' = g.reverse
        /\ gLast' = [op |-> "RemoveNode", node |-> nodeID]
        /\ UNCHANGED <<object, srvVars, sqlVars, fileVars, histVars, concVars, graphFile>>

Clear ==
    /\ adjacency' = EmptyMap
    /\ reverse' = EmptyMap
    /\ gLast' = [op |-> "Clear"]
    /\ UNCHANGED <<object, srvVars, sqlVars, fileVars, histVars, concVars, graphFile>>

UpdateFromEntity(entity, id, data) ==
    \E order \in Orderings(RefKeys(data)) :
        LET nodeID == NodeID(entity, id)
            g      == AddEdgesInOrder(EnsureNode(Graph(adjacency, reverse), nodeID),
                                      nodeID, data, order, 1)
        IN  /\ EdgeCount(g.adjacency) <= MaxEdges
            /\ adjacency' = g.adjacency
            /\ reverse' = g.reverse
            /\ gLast' = [op |-> "UpdateFromEntity", node |-> nodeID, data |-> data]
            /\ UNCHANGED <<object, srvVars, sqlVars, fileVars, histVars, concVars, graphFile>>

FindPath(from, to, maxDepth) ==
    \E r \in FindPathResults(adjacency, from, to, maxDepth) :
        /\ gLast' = [op |-> "FindPath", from |-> from, to |-> to,
                     maxDepth |-> maxDepth, path |-> r.path, err |-> r.err]
        /\ UNCHANGED <<object, srvVars, sqlVars, fileVars, histVars, concVars,
                       adjacency, reverse, graphFile>>

\* g.adjacency[node] of a missing node is a nil map: ranging over it visits
\* nothing
NeighborsOf(adj, node) == IF node \in DOMAIN adj THEN DOMAIN adj[node] ELSE {}

\* a test that takes every visited neighbour for a node of the current path
OnRecStack_AnyVisited(neighbor, visited, recStack) == neighbor \in visited

\* recStack[neighbor]
OnRecStack(neighbor, visited, recStack) == neighbor \in recStack

\* hasCycleFrom(node): the outcomes of the closure over every order in which
\* the range over g.adjacency[node] can run; an outcome is the value returned
\* and the visited map it leaves.  recStack[node] is set on entry and cleared
\* before the closure returns false, so the caller's recStack is as it was.
RECURSIVE hasCycleFrom(_, _, _, _)
RECURSIVE RangeNeighbors(_, _, _, _, _)
hasCycleFrom(adj, node, visited, recStack) ==
    UNION {RangeNeighbors(adj, order, 1, visited \cup {node}, recStack \cup {node}) :
             order \in Orderings(NeighborsOf(adj, node))}

\* the loop over the neighbours of a node, from the i-th key of order on
RangeNeighbors(adj, order, i, visited, recStack) ==
    IF i > Len(order) THEN {[found |-> FALSE, visited |-> visited]}
    ELSE IF order[i] \notin visited
    THEN UNION {IF r.found THEN {r}
                ELSE RangeNeighbors(adj, order, i + 1, r.visited, recStack) :
                   r \in hasCycleFrom(adj, order[i], visited, recStack)}
    ELSE IF OnRecStack(order[i], visited, recStack)
    THEN {[found |-> TRUE, visited |-> visited]}
    ELSE RangeNeighbors(adj, order, i + 1, visited, recStack)

\* the loop over g.adjacency that starts a search at every unvisited node
RECURSIVE RangeNodes(_, _, _, _)
RangeNodes(adj, order, i, visited) ==
    IF i > Len(order) THEN {FALSE}
    ELSE IF order[i] \notin visited
    THEN UNION {IF r.found THEN {TRUE}
                ELSE RangeNodes(adj, order, i + 1, r.visited) :
                   r \in hasCycleFrom(adj, order[i], visited, {})}
    ELSE RangeNodes(adj, order, i + 1, visited)

\* the values HasCycle can return on the graph adj
HasCycleResults(adj) ==
    UNION {RangeNodes(adj, order, 1, {}) : order \in Orderings(DOMAIN adj)}

HasCycle ==
    \E r \in HasCycleResults(adjacency) :
        /\ gLast' = [op |-> "HasCycle", result |-> r,
                     adjacency |-> adjacency, reverse |-> reverse]
        /\ UNCHANGED <<object, srvVars, sqlVars, fileVars, histVars, concVars,
                       adjacency, reverse, graphFile>>

\* the ranges over g.adjacency and over each neighbours map run in any order
\* the contents Save can write for the map adj: one line per node, nodes and
\* neighbours in the order of the two ranges
SavedFiles(adj) ==
    {[exists |-> TRUE,
      lines |-> [i \in 1..Len(nodeOrder) |->
                   SaveLine(adj, nodeOrder[i], nbrOrder[nodeOrder[i]])]] :
        nodeOrder \in Orderings(DOMAIN adj),
        nbrOrder \in {f \in [DOMAIN adj -> UNION {Orderings(DOMAIN adj[n]) : n \in DOMAIN adj}] :
                        \A n \in DOMAIN adj : f[n] \in Orderings(DOMAIN adj[n])}}

Save ==
    \E f \in SavedFiles(adjacency) :
        /\ graphFile' = f
        /\ gLast' = [op |-> "Save", adjacency |-> adjacency, reverse |-> reverse]
        /\ UNCHANGED <<object, srvVars, sqlVars, fileVars, histVars, concVars,
                       adjacency, reverse>>

\* the history keeps the maps the file was saved from, if Load follows Save
Load ==
    LET g == IF graphFile.exists
             THEN LoadLines(Graph(EmptyMap, EmptyMap), graphFile.lines, 1)
             ELSE Graph(adjacency, reverse)
    IN  /\ adjacency' = g.adjacency
        /\ reverse' = g.reverse
        /\ gLast' = IF gLast.op = "Save"
                    THEN [op |-> "Load", adjacency |-> gLast.adjacency,
                          reverse |-> gLast.reverse]
                    ELSE [op |-> "Load"]
        /\ UNCHANGED <<object, srvVars, sqlVars, fileVars, histVars, concVars, graphFile>>

\* the documents the handlers pass to UpdateFromEntity: a decoded body
GraphDocs ==
    {[name |-> Str("A")],
     [manager |-> RefObj("users", FloatNum(2))],
     [manager |-> RefObj("users", FloatNum(4))],
     [manager |-> RefObj("users", FloatNum(198))],
     [manager |-> RefObj("users", FloatNum(2)), peer |-> RefObj("users", FloatNum(2))]}

\* contents of graph.data found at start-up
GraphFiles ==
    {[exists |-> TRUE, lines |-> <<>>],
     [exists |-> TRUE, lines |-> << <<"users", ":", "1", ":">> >>],
     [exists |-> TRUE, lines |-> << <<"users", ":", "2", ":", "users", ":", "1", ":", "manager">> >>],
     [exists |-> TRUE, lines |-> << <<"a", ":", "b", ":", "manager", " ", "c", ":", "peer">>,
                                    <<"no colon here">>,
                                    <<" ", "b", ":", "a", ":", "peer", " ", " ", "x">> >>]}

InitGraph ==
    /\ object = "IndexedGraph"
    /\ entities = EmptyMap
    /\ graph_edges = {}
    /\ entity_sequences = EmptyMap
    /\ files = EmptyMap
    /\ nextIdFile = EmptyMap
    /\ graphFile \in GraphFiles \cup {NoFile}
    /\ InitRest

NextGraph ==
    \/ \E n \in GraphNodes : AddNode(n)
    \/ \E from, to \in GraphNodes : \E r \in Relationships : AddEdge(from, to, r)
    \/ \E from, to \in GraphNodes : RemoveEdge(from, to)
    \/ \E n \in GraphNodes : RemoveNode(n)
    \/ \E id \in 1..MaxNode : \E d \in GraphDocs :
          UpdateFromEntity("users", id, Put(d, "id", IntNum(id)))
    \/ Clear
    \/ Load

SpecGraph == InitGraph /\ [][NextGraph]_vars

\* a new graph without a graph.data
InitPath == InitGraph /\ graphFile = NoFile

\* the graph as the HTTP handlers drive it: handleCreate, handleUpdate and
\* handlePatch call UpdateFromEntity with the new document, handleDelete
\* calls RemoveNode
NextHandlers ==
    \/ \E id \in 1..MaxNode : \E d \in GraphDocs :
          UpdateFromEntity("users", id, Put(d, "id", IntNum(id)))
    \/ \E n \in GraphNodes : RemoveNode(n)

SpecHandlers == InitPath /\ [][NextHandlers]_vars

\* FindPath on the graphs that AddNode and AddEdge build
NextPath ==
    \/ \E n \in PathNodes : AddNode(n)
    \/ \E from, to \in PathNodes : AddEdge(from, to, <<"manager">>)
    \/ \E from, to \in PathNodes : \E d \in 0..MaxDepthArg : FindPath(from, to, d)

SpecPath == InitPath /\ [][NextPath]_vars

\* HasCycle on the graphs that AddEdge, RemoveEdge and RemoveNode build
NextCycle ==
    \/ \E from, to \in PathNodes : AddEdge(from, to, <<"manager">>)
    \/ \E from, to \in PathNodes : RemoveEdge(from, to)
    \/ \E n \in PathNodes : RemoveNode(n)
    \/ HasCycle

SpecCycle == InitPath /\ [][NextCycle]_vars

\* a graph is built, saved once, and the file is loaded by a new process
NextPersist ==
    \/ \E n \in GraphNodes : ~graphFile.exists /\ AddNode(n)
    \/ \E from, to \in GraphNodes : \E r \in Relationships :
          ~graphFile.exists /\ AddEdge(from, to, r)
    \/ \E id \in 1..MaxNode : \E d \in GraphDocs :
          ~graphFile.exists /\ UpdateFromEntity("users", id, Put(d, "id", IntNum(id)))
    \/ ~graphFile.exists /\ Save
    \/ gLast.op = "Save" /\ Load

SpecPersist == InitPath /\ [][NextPersist]_vars

\* the two objects that delete nodes of a graph: the SQLite store and the
\* in-memory graph of the handlers
InitDelete ==
    \/ InitSQL
    \/ InitPath

NextDelete ==
    \/ object = "SQLiteStore" /\ NextSQL
    \/ object = "IndexedGraph" /\ NextHandlers

SpecDelete == InitDelete /\ [][NextDelete]_vars

----------------------------------------------------------------------------
(* models.IsReference on the values a decoded document can hold.  The      *)
(* handlers pass every field of a document to it in UpdateFromEntity.       *)

\* values of a top-level field: references with every kind of entity and id,
\* objects that miss a key or carry another type, and plain values
RefValues ==
    {RefObj(e, n) : e \in {"users", ""},
                    n \in {FloatNum(2), FloatNum(3), FloatNum(0), FloatNum(-2),
                           FloatNum(-3), IntNum(2), IntNum(0), Str("1"), Null}}
    \cup {Obj([type |-> Str("ref"), entity |-> Str("users"), id |-> FloatNum(2)]),
          Obj([type |-> Str("REF"), entity |-> FloatNum(2), id |-> FloatNum(2)]),
          Obj([type |-> Str("REF"), entity |-> Str("users")]),
          Obj([type |-> Str("REF"), id |-> FloatNum(2)]),
          Obj([entity |-> Str("users"), id |-> FloatNum(2)]),
          Str("REF"), Null, FloatNum(2)}

RefDocs == {[manager |-> v] : v \in RefValues}

\* the documents of users/1 are passed to the graph, as handleCreate and
\* handleUpdate do, and handleDelete removes the node
NextRef ==
    \/ \E d \in RefDocs : UpdateFromEntity("users", 1, Put(d, "id", IntNum(1)))
    \/ RemoveNode(NodeID("users", 1))

SpecRef == InitPath /\ [][NextRef]_vars

----------------------------------------------------------------------------
(* The HTTP handlers of the server: a store, the in-memory graph with its    *)
(* graph.data, and the response cache.  In this section object names the    *)
(* store the server was started with.  No schema is registered, so          *)
(* validator.Validate passes, and the bodies are far below MaxEntitySize.   *)

\* largest id the handlers create or name
MaxSrvId == 1

SrvIds == 1..MaxSrvId

\* the configurations LoadFromEnv can produce for the two settings the
\* handlers below read
Configs == [GraphEnabled : BOOLEAN, PatchNullBehavior : {"store", "delete"}]

\* request bodies, as json.Decode delivers them
BodyUser   == [name |-> Str("A"), email |-> Str("a@x")]
BodyMember == [name |-> Str("E"), manager |-> RefObj("users", FloatNum(2))]

CreateBodies == {BodyUser, BodyMember}

PatchBodies ==
    {[email |-> Null, age |-> FloatNum(60)],
     [id |-> FloatNum(18), manager |-> RefObj("users", FloatNum(4))]}

\* a null is removed from the document whatever the policy
NullIsDeleted_Always(value, policy) == value = Null

\* value == nil && s.config.PatchNullBehavior == "delete"
NullIsDeleted(value, policy) == value = Null /\ policy = "delete"

\* the merge loop of handlePatch
HandlerMerge(existing, patchData, policy) ==
    LET keys    == (DOMAIN patchData) \ {"id"}
        removed == {key \in keys : NullIsDeleted(patchData[key], policy)}
    IN  [key \in ((DOMAIN existing) \ removed) \cup (keys \ removed) |->
            IF key \in keys THEN patchData[key] ELSE existing[key]]

\* storage.Create, storage.Update on the store of the server
StorageCreate(e, data) ==
    IF object = "SQLiteStore"
    THEN SqlCreateTx(e, data) /\ UNCHANGED fileVars
    ELSE FileCreateWrite(e, data) /\ UNCHANGED sqlVars

StorageCreateFails(e) == object = "SQLiteStore" /\ SqlExists(e, SqlNextID(e))

StorageUpdate(e, id, data) ==
    IF object = "SQLiteStore"
    THEN SqlUpdateTx(e, id, data) /\ UNCHANGED fileVars
    ELSE FileUpdateWrite(e, id, data) /\ UNCHANGED sqlVars

\* the document as the handler holds it after the store call: JSONFileStore
\* sets data["id"] on the caller's map, SQLiteStore works on a copy
AfterStore(data, id) ==
    IF object = "JSONFileStore" THEN Put(data, "id", IntNum(id)) ELSE data

\* graph.UpdateFromEntity followed by graph.Save(config.GraphDataFile), when
\* the graph is enabled
UpdateGraph(e, id, data) ==
    IF config.GraphEnabled
    THEN \E order \in Orderings(RefKeys(data)) :
           LET nodeID == NodeID(e, id)
               g == AddEdgesInOrder(EnsureNode(Graph(adjacency, reverse), nodeID),
                                    nodeID, data, order, 1)
           IN  /\ adjacency' = g.adjacency
               /\ reverse' = g.reverse
               /\ graphFile' \in SavedFiles(g.adjacency)
               /\ gLast' = [op |-> "Save", adjacency |-> g.adjacency,
                            reverse |-> g.reverse]
    ELSE UNCHANGED graphVars

\* cache.DeletePattern(entity): every key with the prefix entity goes
invalidateCache(e) ==
    cache' = [key \in {x \in DOMAIN cache : x[1] # e} |-> cache[key]]

SrvFrame == UNCHANGED <<object, concVars, config, local, tmpFile, gmu>>

handleCreate(e, body) ==
    /\ IF StorageCreateFails(e)
       THEN /\ UNCHANGED <<sqlVars, fileVars, graphVars, cache>>
            /\ Returned("handleCreate", e, 0, "500", NextCreateID(e))
       ELSE LET id == NextCreateID(e)
            IN  /\ StorageCreate(e, body)
                /\ UpdateGraph(e, id, Put(body, "id", IntNum(id)))
                /\ invalidateCache(e)
                /\ Returned("handleCreate", e, id, "201", id)
    /\ SrvFrame

\* GET without embed_depth: the cached response, or the stored document,
\* which is then cached
handleGet(e, id) ==
    /\ IF <<e, id>> \in DOMAIN cache
       THEN /\ UNCHANGED cache
            /\ Returned("handleGet", e, id, "200", NextCreateID(e))
       ELSE IF GetResult(e, id).err # "ok"
       THEN /\ UNCHANGED cache
            /\ Returned("handleGet", e, id, "404", NextCreateID(e))
       ELSE /\ cache' = Put(cache, <<e, id>>, GetResult(e, id).doc)
            /\ Returned("handleGet", e, id, "200", NextCreateID(e))
    /\ UNCHANGED <<sqlVars, fileVars, graphVars>>
    /\ SrvFrame

handlePatch(e, id, patchData) ==
    /\ IF GetResult(e, id).err # "ok"
       THEN /\ UNCHANGED <<sqlVars, fileVars, graphVars, cache>>
            /\ Returned("handlePatch", e, id, "404", NextCreateID(e))
       ELSE LET existing == HandlerMerge(GetResult(e, id).doc, patchData,
                                         config.PatchNullBehavior)
            IN  /\ StorageUpdate(e, id, existing)
                /\ UpdateGraph(e, id, AfterStore(existing, id))
                /\ invalidateCache(e)
                /\ Returned("handlePatch", e, id, "200", NextCreateID(e))
    /\ SrvFrame

InitServer ==
    /\ object \in {"SQLiteStore", "JSONFileStore"}
    /\ entities = EmptyMap
    /\ graph_edges = {}
    /\ entity_sequences = EmptyMap
    /\ files = EmptyMap
    /\ nextIdFile = EmptyMap
    /\ graphFile = NoFile
    /\ InitState
    /\ config \in Configs

NextServer ==
    \/ \E e \in Entities, body \in CreateBodies :
          NextCreateID(e) <= MaxSrvId /\ handleCreate(e, body)
    \/ \E e \in Entities, id \in SrvIds : handleGet(e, id)
    \/ \E e \in Entities, id \in SrvIds, body \in PatchBodies :
          handlePatch(e, id, body)

SpecServer == InitServer /\ [][NextServer]_vars

----------------------------------------------------------------------------
(* Two concurrent patches of one document.  Each of the two callers patches *)
(* the document users/1 once, with a field the other does not name, either  *)
(* with Store.Patch or with a PATCH request.  JSONFileStore.Patch is Get    *)
(* followed by Update and takes no lock; SQLiteStore.Patch runs its         *)
(* transaction while holding s.mu; handlePatch is storage.Get followed by   *)
(* storage.Update.                                                          *)

Patchers == {1, 2}

PatchedId == 1

\* the field each caller patches
PatcherDoc(p) == IF p = 1 THEN [name |-> Str("B")] ELSE [email |-> Str("c@x")]

PatchFrame == UNCHANGED <<object, histVars, localNextID, idLocks, ret, config,
                          tmpFile, gmu>>

\* JSONFileStore.Patch: existing, err := s.Get(ctx, entity, id)
PatchGet(p) ==
    /\ object = "JSONFileStore"
    /\ pc[p] = "idle"
    /\ FileGetResult(CreateEntity, PatchedId).err = "ok"
    /\ local' = [local EXCEPT ![p] = FileGetResult(CreateEntity, PatchedId).doc]
    /\ pc' = [pc EXCEPT ![p] = "got"]
    /\ UNCHANGED <<sqlVars, fileVars, graphVars, mu, cache>>
    /\ PatchFrame

\* JSONFileStore.Patch: the merge and s.Update(ctx, entity, id, existing)
PatchUpdate(p) ==
    /\ pc[p] = "got"
    /\ FileUpdateWrite(CreateEntity, PatchedId, FileMerge(local[p], PatcherDoc(p)))
    /\ pc' = [pc EXCEPT ![p] = "done"]
    /\ UNCHANGED <<sqlVars, graphVars, mu, local, cache>>
    /\ PatchFrame

\* SQLiteStore.Patch: s.mu.Lock()
SqlPatchLock(p) ==
    /\ object = "SQLiteStore"
    /\ pc[p] = "idle"
    /\ mu = 0
    /\ mu' = p
    /\ pc' = [pc EXCEPT ![p] = "patching"]
    /\ UNCHANGED <<sqlVars, fileVars, graphVars, local, cache>>
    /\ PatchFrame

\* SQLiteStore.Patch: the transaction and the deferred Unlock
SqlPatchCommit(p) ==
    /\ pc[p] = "patching"
    /\ mu = p
    /\ SqlPatchTx(CreateEntity, PatchedId, PatcherDoc(p))
    /\ mu' = 0
    /\ pc' = [pc EXCEPT ![p] = "done"]
    /\ UNCHANGED <<fileVars, graphVars, local, cache>>
    /\ PatchFrame

\* handlePatch: existing, err := s.storage.Get(...); SQLiteStore.Get takes
\* the read lock of s.mu
HandlerGet(p) ==
    /\ pc[p] = "idle"
    /\ mu = 0
    /\ GetResult(CreateEntity, PatchedId).err = "ok"
    /\ local' = [local EXCEPT ![p] = GetResult(CreateEntity, PatchedId).doc]
    /\ pc' = [pc EXCEPT ![p] = "merging"]
    /\ UNCHANGED <<sqlVars, fileVars, graphVars, mu, cache>>
    /\ PatchFrame

\* handlePatch: the merge, s.storage.Update, the graph update and the cache
\* invalidation; SQLiteStore.Update takes s.mu for its transaction
HandlerUpdate(p) ==
    /\ pc[p] = "merging"
    /\ mu = 0
    /\ LET existing == HandlerMerge(local[p], PatcherDoc(p), config.PatchNullBehavior)
       IN  /\ StorageUpdate(CreateEntity, PatchedId, existing)
           /\ UpdateGraph(CreateEntity, PatchedId, AfterStore(existing, PatchedId))
    /\ invalidateCache(CreateEntity)
    /\ pc' = [pc EXCEPT ![p] = "done"]
    /\ UNCHANGED <<mu, local>>
    /\ PatchFrame

\* the server with the document users/1 = {id, name, email} stored
InitPatch ==
    /\ object \in {"SQLiteStore", "JSONFileStore"}
    /\ LET seeded == (<<CreateEntity, PatchedId>> :>
                        MarshalDoc(Put(BodyUser, "id", IntNum(PatchedId))))
       IN  /\ entities = IF object = "SQLiteStore" THEN seeded ELSE EmptyMap
           /\ entity_sequences = IF object = "SQLiteStore"
                                 THEN (CreateEntity :> 1) ELSE EmptyMap
           /\ files = IF object = "JSONFileStore" THEN seeded ELSE EmptyMap
           /\ nextIdFile = IF object = "JSONFileStore"
                           THEN (CreateEntity :> 2) ELSE EmptyMap
    /\ graph_edges = {}
    /\ graphFile = NoFile
    /\ InitState
    /\ config \in Configs

NextPatch ==
    \/ \E p \in Patchers : PatchGet(p)
    \/ \E p \in Patchers : PatchUpdate(p)
    \/ \E p \in Patchers : SqlPatchLock(p)
    \/ \E p \in Patchers : SqlPatchCommit(p)
    \/ \E p \in Patchers : HandlerGet(p)
    \/ \E p \in Patchers : HandlerUpdate(p)

SpecPatch == InitPatch /\ [][NextPatch]_vars

----------------------------------------------------------------------------
(* The write path of the file backend, one call at a time.  handleCreate on *)
(* a JSONFileStore writes the document, then updates the in-memory graph,   *)
(* then saves graph.data.  None of JSONFileStore's methods takes entityMux, *)
(* and the handler takes no lock of its own, so a reader can run after any  *)
(* of the three calls.                                                      *)

Writers == {1, 2}

\* s.storage.Create(ctx, entity, data)
WriteDoc(p, body) ==
    /\ object = "JSONFileStore"
    /\ pc[p] = "idle"
    /\ FileCreateWrite(CreateEntity, body)
    /\ local' = [local EXCEPT ![p] =
                   [id |-> FileNextID(CreateEntity),
                    data |-> Put(body, "id", IntNum(FileNextID(CreateEntity)))]]
    /\ pc' = [pc EXCEPT ![p] = "written"]
    /\ UNCHANGED <<sqlVars, graphVars, mu, cache>>
    /\ PatchFrame

\* s.graph.UpdateFromEntity(entity, id, data)
WriteGraph(p) ==
    /\ pc[p] = "written"
    /\ config.GraphEnabled
    /\ \E order \in Orderings(RefKeys(local[p].data)) :
          LET nodeID == NodeID(CreateEntity, local[p].id)
              g == AddEdgesInOrder(EnsureNode(Graph(adjacency, reverse), nodeID),
                                   nodeID, local[p].data, order, 1)
          IN  /\ adjacency' = g.adjacency
              /\ reverse' = g.reverse
    /\ pc' = [pc EXCEPT ![p] = "linked"]
    /\ UNCHANGED <<sqlVars, fileVars, graphFile, gLast, mu, local, cache>>
    /\ PatchFrame

\* s.graph.Save(s.config.GraphDataFile) and s.invalidateCache(entity)
WriteFlush(p) ==
    /\ pc[p] = "linked"
    /\ graphFile' \in SavedFiles(adjacency)
    /\ invalidateCache(CreateEntity)
    /\ pc' = [pc EXCEPT ![p] = "done"]
    /\ UNCHANGED <<sqlVars, fileVars, adjacency, reverse, gLast, mu, local>>
    /\ PatchFrame

\* the out-neighbours GetNeighbors returns
GetNeighbors(nodeID) == NeighborsOf(adjacency, nodeID)

\* a reader: store.Get(entity, id), then graph.GetNeighbors of the node; it
\* reports whether every reference of the document is an out-edge
ReadNode(id) ==
    /\ FileGetResult(CreateEntity, id).err = "ok"
    /\ LET doc == FileGetResult(CreateEntity, id).doc
       IN  last' = [op |-> "Read", entity |-> CreateEntity, id |-> id,
                    err |-> IF \A key \in RefKeys(doc) :
                                  RefNodeID(doc[key])
                                      \in GetNeighbors(NodeID(CreateEntity, id))
                            THEN "ok" ELSE "torn",
                    c |-> 0]
    /\ UNCHANGED <<object, sqlVars, fileVars, graphVars, concVars, srvVars, issued>>

InitWrite ==
    /\ object = "JSONFileStore"
    /\ InitStores

NextWrite ==
    \/ \E p \in Writers, body \in CreateBodies : WriteDoc(p, body)
    \/ \E p \in Writers : WriteGraph(p)
    \/ \E p \in Writers : WriteFlush(p)
    \/ \E id \in 1..Cardinality(Writers) : ReadNode(id)

SpecWrite == InitWrite /\ [][NextWrite]_vars

----------------------------------------------------------------------------
(* Two concurrent Save calls on one file.  Save takes the read lock of g.mu, *)
(* creates (or truncates) <filename>.tmp, writes the lines through a         *)
(* bufio.Writer, flushes, and renames the temporary file over the file.     *)
(* Both callers use the same temporary name.  A file is the sequence of its *)
(* lines; a write lands at the offset of the caller's own descriptor, and a *)
(* descriptor follows its file through a rename.                            *)

Savers == {1, 2}

\* the bytes of a hole left by a write past the end of a truncated file
Hole == <<"\\0">>

\* the lines of a file after chunk is written at line offset pos
WriteAt(lines, pos, chunk) ==
    [i \in 1..(IF Len(lines) > pos + Len(chunk) THEN Len(lines)
                ELSE pos + Len(chunk)) |->
        IF i > pos /\ i <= pos + Len(chunk) THEN chunk[i - pos]
        ELSE IF i <= Len(lines) THEN lines[i]
        ELSE Hole]

SaveFrame == UNCHANGED <<object, sqlVars, fileVars, histVars, localNextID, idLocks,
                         mu, ret, config, cache, adjacency, reverse, gLast>>

\* g.mu.RLock() can return: no writer holds the lock
RLockFree(p) == gmu.writer = 0

\* g.mu.RLock(); the lines the two ranges of this call will produce
SaveRLock(p) ==
    /\ pc[p] = "idle"
    /\ RLockFree(p)
    /\ gmu' = [gmu EXCEPT !.readers = @ \cup {p}]
    /\ \E f \in SavedFiles(adjacency) :
          local' = [local EXCEPT ![p] = [content |-> f.lines, pos |-> 0, fd |-> "none"]]
    /\ pc' = [pc EXCEPT ![p] = "rlocked"]
    /\ UNCHANGED <<tmpFile, graphFile>>
    /\ SaveFrame

\* os.Create(tempFile): the temporary file is created, or truncated if it
\* is there
SaveCreate(p) ==
    /\ pc[p] = "rlocked"
    /\ tmpFile' = [exists |-> TRUE, lines |-> <<>>]
    /\ local' = [local EXCEPT ![p].fd = "tmp"]
    /\ pc' = [pc EXCEPT ![p] = "created"]
    /\ UNCHANGED <<gmu, graphFile>>
    /\ SaveFrame

\* the bufio.Writer hands its buffer to the file: when the buffer fills up
\* during a WriteString, and at Flush; a call writes one or more lines
SaveWrite(p) ==
    /\ pc[p] = "created"
    /\ local[p].pos < Len(local[p].content)
    /\ \E k \in 1..(Len(local[p].content) - local[p].pos) :
          LET chunk == SubSeq(local[p].content, local[p].pos + 1, local[p].pos + k)
          IN  /\ IF local[p].fd = "tmp"
                 THEN /\ tmpFile' = [tmpFile EXCEPT
                                       !.lines = WriteAt(@, local[p].pos, chunk)]
                      /\ UNCHANGED graphFile
                 ELSE /\ graphFile' = [graphFile EXCEPT
                                         !.lines = WriteAt(@, local[p].pos, chunk)]
                      /\ UNCHANGED tmpFile
              /\ local' = [local EXCEPT ![p].pos = @ + k]
    /\ UNCHANGED <<pc, gmu>>
    /\ SaveFrame

\* os.Rename(tempFile, filename) after the Flush: it fails when the
\* temporary name is gone; the descriptors open on the file stay open on it
SaveRename(p) ==
    /\ pc[p] = "created"
    /\ local[p].pos = Len(local[p].content)
    /\ IF tmpFile.exists
       THEN /\ graphFile' = tmpFile
            /\ tmpFile' = NoFile
            /\ local' = [q \in DOMAIN local |->
                           IF q \in Savers /\ pc[q] \in {"created", "renamed"}
                              /\ local[q].fd = "tmp"
                           THEN [local[q] EXCEPT !.fd = "data"]
                           ELSE local[q]]
       ELSE UNCHANGED <<graphFile, tmpFile, local>>
    /\ pc' = [pc EXCEPT ![p] = "renamed"]
    /\ UNCHANGED gmu
    /\ SaveFrame

\* the deferred file.Close() and g.mu.RUnlock()
SaveUnlock(p) ==
    /\ pc[p] = "renamed"
    /\ gmu' = [gmu EXCEPT !.readers = @ \ {p}]
    /\ local' = [local EXCEPT ![p] = EmptyMap]
    /\ pc' = [pc EXCEPT ![p] = "done"]
    /\ UNCHANGED <<tmpFile, graphFile>>
    /\ SaveFrame

\* the graph is built before the first Save starts
NextSave ==
    \/ \E n \in GraphNodes : (\A p \in Savers : pc[p] = "idle") /\ AddNode(n)
    \/ \E from, to \in GraphNodes :
          (\A p \in Savers : pc[p] = "idle") /\ AddEdge(from, to, <<"manager">>)
    \/ \E p \in Savers : SaveRLock(p)
    \/ \E p \in Savers : SaveCreate(p)
    \/ \E p \in Savers : SaveWrite(p)
    \/ \E p \in Savers : SaveRename(p)
    \/ \E p \in Savers : SaveUnlock(p)

SpecSave == InitPath /\ [][NextSave]_vars

----------------------------------------------------------------------------
(* The audit and the rebuild of graph_edges.  VerifyGraphIntegrity reads    *)
(* both tables and compares two sets of edge keys; RebuildGraph empties     *)
(* graph_edges and inserts the edges of every stored document again.        *)

\* largest id of the documents the audited store holds
MaxAuditId == 2

AuditIds == 1..MaxAuditId

\* documents with a reference whose id is 1, -1 and 0.5
AuditDocs ==
    {DocPlain,
     [manager |-> RefObj("users", FloatNum(2))],
     [manager |-> RefObj("users", FloatNum(-2))],
     [manager |-> RefObj("users", FloatNum(1))]}

AuditPatches == {[manager |-> Null], [manager |-> RefObj("users", FloatNum(-2))]}

\* v, _ := valueMap[key].(string)
AsString(o, key) ==
    IF key \in DOMAIN o /\ o[key].k = "str" THEN o[key].s ELSE ""

\* v, _ := valueMap["id"].(float64), in halves
AsFloat64(o, key) ==
    IF key \in DOMAIN o /\ o[key].k = "num" /\ o[key].t = "float" THEN o[key].h ELSE 0

\* value is a map whose "type" is the string "REF"
IsRefMap(value) ==
    /\ value.k = "obj"
    /\ "type" \in DOMAIN value.o
    /\ value.o["type"] = Str("REF")

\* fmt.Sprintf("%s:%d:%s:%d:%s", ...), as a sequence of tokens
EdgeKey(source, sourceID, target, targetID, rel) ==
    <<source, ":", ToString(sourceID), ":", target, ":", ToString(targetID), ":", rel>>

\* the fields of a stored document the audit expects an edge for:
\* targetEntity != "" && targetID > 0, compared as float64
ExpectedField(data, key) ==
    /\ IsRefMap(data[key])
    /\ AsString(data[key].o, "entity") # ""
    /\ AsFloat64(data[key].o, "id") > 0

expectedEdges ==
    UNION {{EdgeKey(k[1], k[2], AsString(entities[k][key].o, "entity"),
                    TruncToInt(AsFloat64(entities[k][key].o, "id")), key) :
               key \in {f \in DOMAIN entities[k] : ExpectedField(entities[k], f)}} :
           k \in DOMAIN entities}

actualEdges ==
    {EdgeKey(r.source_entity, r.source_id, r.target_entity, r.target_id,
             r.relationship_name) : r \in graph_edges}

\* the error VerifyGraphIntegrity returns: the first loop reports a missing
\* edge, the second an unexpected one
VerifyResult ==
    IF expectedEdges \ actualEdges # {} THEN "missing edge"
    ELSE IF actualEdges \ expectedEdges # {} THEN "unexpected edge"
    ELSE "ok"

VerifyGraphIntegrity ==
    /\ Returned("VerifyGraphIntegrity", "", 0, VerifyResult, 0)
    /\ UNCHANGED <<object, srvVars, sqlVars, fileVars, concVars, graphVars>>

\* the fields of a stored document RebuildGraph inserts an edge for:
\* targetEntity != "" && targetID > 0 with targetID := int(targetIDFloat)
RebuiltField(data, key) ==
    /\ IsRefMap(data[key])
    /\ AsString(data[key].o, "entity") # ""
    /\ TruncToInt(AsFloat64(data[key].o, "id")) > 0

\* graph_edges after DELETE FROM graph_edges and the inserts of the loop
RebuiltEdges ==
    UNION {{Edge(k[1], k[2], AsString(entities[k][key].o, "entity"),
                 TruncToInt(AsFloat64(entities[k][key].o, "id")), key) :
               key \in {f \in DOMAIN entities[k] : RebuiltField(entities[k], f)}} :
           k \in DOMAIN entities}

RebuildGraph ==
    /\ graph_edges' = RebuiltEdges
    /\ UNCHANGED <<entities, entity_sequences>>
    /\ Returned("RebuildGraph", "", 0, "ok", 0)
    /\ UNCHANGED <<object, srvVars, fileVars, concVars, graphVars>>

NextAudit ==
    \/ \E e \in Entities, d \in AuditDocs :
          SqlNextID(e) <= MaxAuditId /\ SqlCreate(e, d)
    \/ \E e \in Entities, id \in AuditIds, d \in AuditDocs : SqlUpdate(e, id, d)
    \/ \E e \in Entities, id \in AuditIds, u \in AuditPatches : SqlPatch(e, id, u)
    \/ \E e \in Entities, id \in AuditIds : SqlDelete(e, id)
    \/ \E e \in Entities, id \in AuditIds : SqlSave(e, id, DocPlain)
    \/ VerifyGraphIntegrity
    \/ RebuildGraph

SpecAudit == InitSQL /\ [][NextAudit]_vars

----------------------------------------------------------------------------
(* DELETE on the server: handleDelete with and without CascadingDelete.     *)
(* The documents are created through POST; a body may refer to users/1 or   *)
(* to users/2, so that chains of referring documents exist.                 *)

\* largest id of the documents created before a DELETE
MaxCascadeId == 3

CascadeIds == 1..MaxCascadeId

\* largest MaxCascadeDeletions the server is started with
MaxCeiling == 3

\* server.New takes any Config value: the ceiling of a Config literal that
\* does not name MaxCascadeDeletions is 0
CascadeConfigs ==
    [GraphEnabled : {TRUE}, PatchNullBehavior : {"store"},
     CascadingDelete : BOOLEAN, MaxCascadeDeletions : 0..MaxCeiling]

CascadeBodies ==
    {BodyUser,
     [name |-> Str("E"), manager |-> RefObj("users", FloatNum(2))],
     [name |-> Str("E"), manager |-> RefObj("users", FloatNum(4))]}

\* the loop of cascadeDelete: nothing is ever appended to toCheck
RECURSIVE cascadeLoop(_, _, _, _)
cascadeLoop(toCheck, deletedRefs, checked, max) ==
    IF Len(toCheck) > 0 /\ Len(deletedRefs) < max
    THEN LET current == Head(toCheck)
         IN  IF current \in checked
             THEN cascadeLoop(Tail(toCheck), deletedRefs, checked, max)
             ELSE cascadeLoop(Tail(toCheck), Append(deletedRefs, current),
                              checked \cup {current}, max)
    ELSE deletedRefs

\* the documents handleDelete deletes: the ones cascadeDelete visits, or the
\* named one
DeletedRefs(e, id) ==
    IF config.CascadingDelete
    THEN cascadeLoop(<< <<e, id>> >>, <<>>, {}, config.MaxCascadeDeletions)
    ELSE << <<e, id>> >>

RECURSIVE DeleteEdgesOfAll(_, _, _)
DeleteEdgesOfAll(edges, refs, i) ==
    IF i > Len(refs) THEN edges
    ELSE DeleteEdgesOfAll(DeleteEdgesOf(edges, refs[i][1], refs[i][2]), refs, i + 1)

\* storage.Delete of every document of refs
StorageDelete(refs) ==
    LET gone == {refs[i] : i \in 1..Len(refs)}
    IN  IF object = "SQLiteStore"
        THEN /\ entities' = [k \in (DOMAIN entities) \ gone |-> entities[k]]
             /\ graph_edges' = DeleteEdgesOfAll(graph_edges, refs, 1)
             /\ UNCHANGED <<entity_sequences, fileVars>>
        ELSE /\ files' = [k \in (DOMAIN files) \ gone |-> files[k]]
             /\ UNCHANGED <<nextIdFile, sqlVars>>

RECURSIVE RemoveNodesFrom(_, _, _)
RemoveNodesFrom(g, refs, i) ==
    IF i > Len(refs) THEN g
    ELSE RemoveNodesFrom(RemoveNodeFrom(g, NodeID(refs[i][1], refs[i][2])), refs, i + 1)

\* graph.RemoveNode of every document of refs, then graph.Save, when the
\* graph is enabled
RemoveFromGraph(refs) ==
    IF config.GraphEnabled
    THEN LET g == RemoveNodesFrom(Graph(adjacency, reverse), refs, 1)
         IN  /\ adjacency' = g.adjacency
             /\ reverse' = g.reverse
             /\ graphFile' \in SavedFiles(g.adjacency)
             /\ gLast' = [op |-> "Save", adjacency |-> g.adjacency,
                          reverse |-> g.reverse]
    ELSE UNCHANGED graphVars

\* the response carries the list cascaded_deletes in the place of the counter
handleDelete(e, id) ==
    /\ IF GetResult(e, id).err # "ok"
       THEN /\ UNCHANGED <<sqlVars, fileVars, graphVars, cache>>
            /\ Returned("handleDelete", e, id, "404", <<>>)
       ELSE /\ StorageDelete(DeletedRefs(e, id))
            /\ RemoveFromGraph(DeletedRefs(e, id))
            /\ invalidateCache(e)
            /\ Returned("handleDelete", e, id, "200",
                        [i \in 1..Len(DeletedRefs(e, id)) |->
                            NodeID(DeletedRefs(e, id)[i][1], DeletedRefs(e, id)[i][2])])
    /\ SrvFrame

InitCascade ==
    /\ object \in {"SQLiteStore", "JSONFileStore"}
    /\ entities = EmptyMap
    /\ graph_edges = {}
    /\ entity_sequences = EmptyMap
    /\ files = EmptyMap
    /\ nextIdFile = EmptyMap
    /\ graphFile = NoFile
    /\ InitState
    /\ config \in CascadeConfigs

NextCascade ==
    \/ \E e \in Entities, body \in CascadeBodies :
          NextCreateID(e) <= MaxCascadeId /\ handleCreate(e, body)
    \/ \E e \in Entities, id \in CascadeIds : handleDelete(e, id)

SpecCascade == InitCascade /\ [][NextCascade]_vars

----------------------------------------------------------------------------
(* GET with embed_depth: handleGet passes the stored document to            *)
(* embedReferences when 0 < embed_depth <= MaxEmbedDepth.  The documents    *)
(* refer to users/1, users/2 and users/3, so that references to themselves, *)
(* cycles of two documents and references to missing documents exist.       *)

\* largest id of the documents created before a GET
MaxEmbedId == 2

EmbedIds == 1..MaxEmbedId

\* the MaxEmbedDepth of the configuration
MaxEmbed == 2

\* embedReferences reads the store only: the graph is switched off
EmbedConfigs ==
    [GraphEnabled : {FALSE}, PatchNullBehavior : {"store"}, MaxEmbedDepth : {MaxEmbed}]

EmbedBodies ==
    {BodyUser} \cup {[name |-> Str("E"), manager |-> RefObj("users", FloatNum(2 * i))] :
                        i \in 1..(MaxEmbedId + 1)}

\* ref.Entity and ref.ID of the Reference that IsReference returns
RefEntity(v) == v.o["entity"].s
RefID(v) ==
    IF v.o["id"].t = "float" THEN TruncToInt(v.o["id"].h) ELSE v.o["id"].h \div 2

\* a cut-off that lets depth 0 through
EmbedStops_BelowZero(depth) == depth < 0

\* if depth <= 0 { return data }
EmbedStops(depth) == depth <= 0

RECURSIVE embedReferences(_, _)
embedReferences(data, depth) ==
    IF EmbedStops(depth)
    THEN data
    ELSE [k \in DOMAIN data |->
            IF IsReference(data[k])
            THEN IF GetResult(RefEntity(data[k]), RefID(data[k])).err = "ok"
                 THEN Obj(embedReferences(GetResult(RefEntity(data[k]), RefID(data[k])).doc,
                                          depth - 1))
                 ELSE data[k]
            ELSE data[k]]

\* the document handleGet answers with, for the query parameter embed_depth
EmbedResponse(data, embedDepth) ==
    IF embedDepth > 0 /\ embedDepth <= config.MaxEmbedDepth
    THEN embedReferences(data, embedDepth)
    ELSE data

\* GET /{entity}/{id}?embed_depth=n; the response body takes the place of the
\* counter
handleGetEmbed(e, id, embedDepth) ==
    /\ IF <<e, id>> \in DOMAIN cache
       THEN /\ UNCHANGED cache
            /\ Returned("handleGet", e, id, "200", cache[<<e, id>>])
       ELSE IF GetResult(e, id).err # "ok"
       THEN /\ UNCHANGED cache
            /\ Returned("handleGet", e, id, "404", EmptyMap)
       ELSE /\ cache' = Put(cache, <<e, id>>,
                            EmbedResponse(GetResult(e, id).doc, embedDepth))
            /\ Returned("handleGet", e, id, "200",
                        EmbedResponse(GetResult(e, id).doc, embedDepth))
    /\ UNCHANGED <<sqlVars, fileVars, graphVars>>
    /\ SrvFrame

InitEmbed ==
    /\ object \in {"SQLiteStore", "JSONFileStore"}
    /\ entities = EmptyMap
    /\ graph_edges = {}
    /\ entity_sequences = EmptyMap
    /\ files = EmptyMap
    /\ nextIdFile = EmptyMap
    /\ graphFile = NoFile
    /\ InitState
    /\ config \in EmbedConfigs

NextEmbed ==
    \/ \E e \in Entities, body \in EmbedBodies :
          NextCreateID(e) <= MaxEmbedId /\ handleCreate(e, body)
    \/ \E e \in Entities, id \in EmbedIds, depth \in 0..(MaxEmbed + 1) :
          handleGetEmbed(e, id, depth)

SpecEmbed == InitEmbed /\ [][NextEmbed]_vars

----------------------------------------------------------------------------
(* List and Search of the two stores.  The strings of this section are      *)
(* sequences of characters, so that case, prefixes and the order of file    *)
(* names can be told.  The documents are stored with Save under the ids 1,  *)
(* 2 and 10 and with Create.                                                *)

QueryIds == {1, 2, 10}

QueryDocs ==
    {[name |-> Str(<<"A", "b">>)],
     [name |-> Str(<<"a", "b">>)],
     [name |-> Str(<<"b">>)],
     [email |-> Str(<<"a">>)]}

Queries == {<<"a", "b">>, <<"A">>, <<"b">>}

MatchTypes == {"exact", "contains", "starts", "ends"}

\* strconv.Itoa of an id >= 0
RECURSIVE Digits(_)
Digits(n) == IF n < 10 THEN <<ToString(n)>> ELSE Digits(n \div 10) \o <<ToString(n % 10)>>

\* getEntityFile: "<id>.json"; the extension is one token
FileName(id) == Digits(id) \o <<".json">>

NextIdName == <<"_next_id.json">>

\* the entries of the directory of entity e
DirNames(e) ==
    {FileName(k[2]) : k \in {x \in DOMAIN files : x[1] = e}}
    \cup (IF e \in DOMAIN nextIdFile THEN {NextIdName} ELSE {})

\* the byte a token starts with, as far as the order of the names needs it:
\* '.' < '0' < ... < '9' < '_'
ByteRank(tok) ==
    IF tok = ".json" THEN 0
    ELSE IF tok = "_next_id.json" THEN 11
    ELSE 1 + (CHOOSE d \in 0..9 : ToString(d) = tok)

\* a < b as strings
NameLess(a, b) ==
    \E i \in 1..Len(b) :
        /\ \A j \in 1..(i - 1) : j <= Len(a) /\ a[j] = b[j]
        /\ \/ i = Len(a) + 1
           \/ i <= Len(a) /\ ByteRank(a[i]) < ByteRank(b[i])

\* os.ReadDir: the entries sorted by file name
ReadDir(e) ==
    CHOOSE s \in Orderings(DirNames(e)) :
        \A i, j \in 1..Len(s) : i < j => NameLess(s[i], s[j])

\* an entry List reads: extension .json and not the sequence file
IsDocFile(name) == name[Len(name)] \in {".json", "_next_id.json"} /\ name # NextIdName

RECURSIVE FileListFrom(_, _, _)
FileListFrom(e, names, i) ==
    IF i > Len(names) THEN <<>>
    ELSE IF IsDocFile(names[i])
    THEN <<MarshalDoc(files[<<e, CHOOSE id \in QueryIds \cup Ids : FileName(id) = names[i]>>])>>
         \o FileListFrom(e, names, i + 1)
    ELSE FileListFrom(e, names, i + 1)

FileListResult(e) == FileListFrom(e, ReadDir(e), 1)

\* the ids of the rows of entity e, ORDER BY id
RECURSIVE SortedIds(_)
SortedIds(S) ==
    IF S = {} THEN <<>>
    ELSE LET m == CHOOSE x \in S : \A y \in S : x <= y
         IN  <<m>> \o SortedIds(S \ {m})

SqlRowIds(e) == SortedIds({k[2] : k \in {x \in DOMAIN entities : x[1] = e}})

SqlListResult(e) ==
    [i \in 1..Len(SqlRowIds(e)) |-> MarshalDoc(entities[<<e, SqlRowIds(e)[i]>>])]

ListResult(e) ==
    IF object = "SQLiteStore" THEN SqlListResult(e) ELSE FileListResult(e)

\* the result takes the place of the counter
StoreList(e) ==
    /\ Returned("List", e, 0, "ok", ListResult(e))
    /\ UNCHANGED <<object, srvVars, sqlVars, fileVars, concVars, graphVars>>

\* strings.ToLower, and the case folding of LIKE, on the letters in use
ToLower(s) == [i \in 1..Len(s) |-> IF s[i] = "A" THEN "a" ELSE s[i]]

Contains(s, q) ==
    \E i \in 0..(Len(s) - Len(q)) : SubSeq(s, i + 1, i + Len(q)) = q
HasPrefix(s, q) == Len(q) <= Len(s) /\ SubSeq(s, 1, Len(q)) = q
HasSuffix(s, q) == Len(q) <= Len(s) /\ SubSeq(s, Len(s) - Len(q) + 1, Len(s)) = q

\* the switch of JSONFileStore.Search on the lowered strings
FileMatched(valueStr, query, matchType) ==
    CASE matchType = "contains" -> Contains(valueStr, query)
      [] matchType = "starts"   -> HasPrefix(valueStr, query)
      [] matchType = "ends"     -> HasSuffix(valueStr, query)
      [] matchType = "exact"    -> valueStr = query
      [] OTHER                  -> Contains(valueStr, query)

\* fmt.Sprintf("%v", value) of a string
FormatValue(value) == value.s

FileSearchResult(e, field, query, matchType) ==
    SelectSeq(FileListResult(e),
              LAMBDA item : /\ field \in DOMAIN item
                            /\ FileMatched(ToLower(FormatValue(item[field])),
                                           ToLower(query), matchType))

\* json_extract(data, '$.field') = ? on a text value
SqlExactMatch(text, query) == text = query

\* the WHERE clause of SQLiteStore.Search: = for exact, LIKE with the
\* patterns %q%, q% and %q for the other modes; a missing field is NULL
SqlMatched(data, field, query, matchType) ==
    /\ field \in DOMAIN data
    /\ CASE matchType = "exact"    -> SqlExactMatch(data[field].s, query)
         [] matchType = "contains" -> Contains(ToLower(data[field].s), ToLower(query))
         [] matchType = "starts"   -> HasPrefix(ToLower(data[field].s), ToLower(query))
         [] matchType = "ends"     -> HasSuffix(ToLower(data[field].s), ToLower(query))

SqlSearchResult(e, field, query, matchType) ==
    SelectSeq(SqlListResult(e), LAMBDA item : SqlMatched(item, field, query, matchType))

SearchResult(e, field, query, matchType) ==
    IF object = "SQLiteStore" THEN SqlSearchResult(e, field, query, matchType)
    ELSE FileSearchResult(e, field, query, matchType)

StoreSearch(e, field, query, matchType) ==
    /\ Returned("Search", e, 0, "ok", SearchResult(e, field, query, matchType))
    /\ UNCHANGED <<object, srvVars, sqlVars, fileVars, concVars, graphVars>>

NextQuery ==
    \/ \E e \in Entities, d \in QueryDocs :
          NextCreateID(e) <= 2 /\ StoreCreate(e, d)
    \/ \E e \in Entities, id \in QueryIds, d \in QueryDocs : StoreSave(e, id, d)
    \/ \E e \in Entities, id \in QueryIds : StoreDelete(e, id)
    \/ \E e \in Entities : StoreList(e)
    \/ \E e \in Entities, q \in Queries, m \in MatchTypes : StoreSearch(e, "name", q, m)

SpecQuery == InitStore /\ [][NextQuery]_vars

----------------------------------------------------------------------------
(* Save with any integer id.  Store.Save takes the id as an int and the     *)
(* route POST /{entity}/save/{id} parses it with strconv.Atoi, so zero and  *)
(* negative ids arrive at both.                                             *)

\* largest id passed to Save in this section
MaxSaveId == 1

\* as many ids below 1 as above 0, zero included
SaveIds == (-MaxSaveId - 1)..MaxSaveId

SaveConfigs == [GraphEnabled : {FALSE}, PatchNullBehavior : {"store"}]

\* storage.Exists, storage.Save on the store of the server
StorageExists(e, id) ==
    IF object = "SQLiteStore" THEN SqlExists(e, id) ELSE FileExists(e, id)

StorageSave(e, id, data) ==
    IF object = "SQLiteStore"
    THEN SqlSaveTx(e, id, data) /\ UNCHANGED fileVars
    ELSE FileSaveWrite(e, id, data) /\ UNCHANGED sqlVars

handleSave(e, id, body) ==
    /\ IF id < 0
       THEN /\ UNCHANGED <<sqlVars, fileVars, graphVars, cache>>
            /\ Returned("handleSave", e, id, "400", NextCreateID(e))
       ELSE IF StorageExists(e, id)
       THEN /\ UNCHANGED <<sqlVars, fileVars, graphVars, cache>>
            /\ Returned("handleSave", e, id, "409", NextCreateID(e))
       ELSE LET data == Put(body, "id", IntNum(id))
            IN  /\ StorageSave(e, id, data)
                /\ UpdateGraph(e, id, data)
                /\ invalidateCache(e)
                /\ Returned("handleSave", e, id, "201", NextCreateID(e))
    /\ SrvFrame

InitSaveId ==
    /\ object \in {"SQLiteStore", "JSONFileStore"}
    /\ entities = EmptyMap
    /\ graph_edges = {}
    /\ entity_sequences = EmptyMap
    /\ files = EmptyMap
    /\ nextIdFile = EmptyMap
    /\ graphFile = NoFile
    /\ InitState
    /\ config \in SaveConfigs

NextSaveId ==
    \/ \E e \in Entities :
          NextCreateID(e) <= MaxSaveId + 1 /\ StoreCreate(e, DocPlain)
    \/ \E e \in Entities, id \in SaveIds : StoreSave(e, id, DocPlain)
    \/ \E e \in Entities, id \in SaveIds : handleSave(e, id, BodyUser)
    \/ \E e \in Entities, id \in SaveIds : StoreUpdate(e, id, DocOwnId)
    \/ \E e \in Entities, id \in SaveIds : StorePatch(e, id, [id |-> FloatNum(-4)])
    \/ \E e \in Entities, id \in SaveIds : StoreDelete(e, id)

SpecSaveId == InitSaveId /\ [][NextSaveId]_vars

----------------------------------------------------------------------------
(* The document files of JSONFileStore, one system call at a time.  Create, *)
(* Save and Update end in os.WriteFile(filePath, jsonData, 0644), which     *)
(* opens the file with O_WRONLY|O_CREATE|O_TRUNC, writes the buffer and     *)
(* closes.  In this section files holds the lines of each <id>.json as      *)
(* json.MarshalIndent lays them out: an opening brace, one line per field   *)
(* in key order, a closing brace.  The process can stop after any system    *)
(* call, and a write can end early with an error; the store is then used    *)
(* again on the same directory.                                             *)

\* largest id of a document file in this section
MaxDocId == 2

DocIds == 1..MaxDocId

\* the keys of the documents below, in the order encoding/json sorts them
FieldOrder == <<"email", "id", "name">>

DiskDocs == {DocPlain, BodyUser}

DiskPatches == {[email |-> Str("b@x")], [name |-> Null]}

Brace(b) == [key |-> b, value |-> Null]

\* json.MarshalIndent(data, "", "  ")
MarshalIndent(data) ==
    LET ks == SelectSeq(FieldOrder, LAMBDA k : k \in DOMAIN data)
    IN  <<Brace("{")>>
        \o [i \in 1..Len(ks) |-> [key |-> ks[i], value |-> JsonRoundTrip(data[ks[i]])]]
        \o <<Brace("}")>>

\* whether json.Unmarshal accepts the lines
Unmarshals(lines) ==
    /\ Len(lines) >= 2
    /\ lines[1] = Brace("{")
    /\ lines[Len(lines)] = Brace("}")

\* json.Unmarshal(data, &result) on lines it accepts
Unmarshal(lines) ==
    LET idx == 2..(Len(lines) - 1)
    IN  [k \in {lines[i].key : i \in idx} |->
            lines[CHOOSE i \in idx : lines[i].key = k].value]

Absent == <<[key |-> "ENOENT", value |-> Null]>>

\* the lines of <id>.json, Absent without the file
DiskFile(e, id) == IF <<e, id>> \in DOMAIN files THEN files[<<e, id>>] ELSE Absent

\* the merge loop of JSONFileStore.Patch on the document Get returned
DiskMerge(existing, patchData) ==
    [k \in (DOMAIN existing) \cup ((DOMAIN patchData) \ {"id"}) |->
        IF k \in (DOMAIN patchData) \ {"id"} THEN patchData[k] ELSE existing[k]]

DiskFrame == UNCHANGED <<object, sqlVars, graphVars, issued, localNextID, idLocks,
                         mu, ret, config, tmpFile, gmu, cache>>

\* a call that returns before it opens the file
DiskReturns(op, e, id, err) ==
    /\ pc[1] = "idle"
    /\ last' = [op |-> op, entity |-> e, id |-> id, err |-> err,
                c |-> [before |-> DiskFile(e, id), jsonData |-> DiskFile(e, id)]]
    /\ UNCHANGED <<fileVars, pc, local>>
    /\ DiskFrame

\* data["id"] = id, json.MarshalIndent, and the open of os.WriteFile, which
\* creates the file or truncates it
WriteFileOpen(op, e, id, data) ==
    LET jsonData == MarshalIndent(Put(data, "id", IntNum(id)))
    IN  /\ pc[1] = "idle"
        /\ files' = Put(files, <<e, id>>, <<>>)
        /\ local' = [local EXCEPT ![1] = [entity |-> e, id |-> id,
                                          jsonData |-> jsonData]]
        /\ pc' = [pc EXCEPT ![1] = "opened"]
        /\ last' = [op |-> op, entity |-> e, id |-> id, err |-> "running",
                    c |-> [before |-> DiskFile(e, id), jsonData |-> jsonData]]
        /\ DiskFrame

DiskCreate(e, data) ==
    /\ FileNextID(e) <= MaxDocId
    /\ nextIdFile' = Put(nextIdFile, e, FileNextID(e) + 1)
    /\ WriteFileOpen("Create", e, FileNextID(e), data)

DiskSave(e, id, data) ==
    IF FileExists(e, id)
    THEN DiskReturns("Save", e, id, "ErrAlreadyExists")
    ELSE UNCHANGED nextIdFile /\ WriteFileOpen("Save", e, id, data)

DiskUpdate(e, id, data) ==
    IF ~FileExists(e, id)
    THEN DiskReturns("Update", e, id, "ErrNotFound")
    ELSE UNCHANGED nextIdFile /\ WriteFileOpen("Update", e, id, data)

\* Get, the merge, then Update
DiskPatch(e, id, patchData) ==
    IF ~FileExists(e, id)
    THEN DiskReturns("Patch", e, id, "ErrNotFound")
    ELSE IF ~Unmarshals(files[<<e, id>>])
    THEN DiskReturns("Patch", e, id, "unexpected end of JSON input")
    ELSE /\ UNCHANGED nextIdFile
         /\ WriteFileOpen("Patch", e, id,
                          DiskMerge(Unmarshal(files[<<e, id>>]), patchData))

\* the file of the running call after n lines of the buffer have reached it
Written(n) ==
    Put(files, <<local[1].entity, local[1].id>>, SubSeq(local[1].jsonData, 1, n))

WriteFileEnds(n, err) ==
    /\ pc[1] = "opened"
    /\ files' = Written(n)
    /\ pc' = [pc EXCEPT ![1] = "idle"]
    /\ local' = [local EXCEPT ![1] = EmptyMap]
    /\ last' = [last EXCEPT !.err = err]
    /\ UNCHANGED nextIdFile
    /\ DiskFrame

\* f.Write(data) writes the buffer, f.Close()
WriteFileWrite == pc[1] = "opened" /\ WriteFileEnds(Len(local[1].jsonData), "ok")

\* f.Write(data) returns an error (disk full, I/O error) after part of the
\* buffer
WriteFileFails ==
    /\ pc[1] = "opened"
    /\ \E n \in 0..(Len(local[1].jsonData) - 1) : WriteFileEnds(n, "EIO")

\* the process stops between the open and the return of os.WriteFile
Crash ==
    /\ pc[1] = "opened"
    /\ \E n \in 0..Len(local[1].jsonData) : WriteFileEnds(n, "crash")

InitDisk == object = "JSONFileStore" /\ InitStores

NextDisk ==
    \/ \E e \in Entities, d \in DiskDocs : DiskCreate(e, d)
    \/ \E e \in Entities, id \in DocIds, d \in DiskDocs : DiskSave(e, id, d)
    \/ \E e \in Entities, id \in DocIds, d \in DiskDocs : DiskUpdate(e, id, d)
    \/ \E e \in Entities, id \in DocIds, u \in DiskPatches : DiskPatch(e, id, u)
    \/ WriteFileWrite
    \/ WriteFileFails
    \/ Crash

SpecDisk == InitDisk /\ [][NextDisk]_vars

----------------------------------------------------------------------------
(* NextID of JSONFileStore, one system call at a time, on a process that    *)
(* can stop anywhere.  In this section nextIdFile holds the text of         *)
(* _next_id.json as three tokens: the opening `{"next_id":`, the number,    *)
(* the closing brace.  After a stop the store is opened again on the same   *)
(* directory: NewJSONFileStore starts with an empty idLocks map.            *)

\* largest id NextID hands out in this section
MaxSeqId == 3

Tok(t, n) == [tok |-> t, n |-> n]

\* json.Marshal(idData)
SeqText(n) == <<Tok("{\"next_id\":", 0), Tok("number", n), Tok("}", 0)>>

\* os.ReadFile and json.Unmarshal of NextID: nextID stays 1 when the file is
\* missing and when the text does not parse
ReadNextID(e) ==
    IF e \in DOMAIN nextIdFile /\ Len(nextIdFile[e]) = Len(SeqText(0))
    THEN nextIdFile[e][2].n
    ELSE 1

\* the ids handed out up to and including the call in last
SeqIssuedNow ==
    IF last.op = "NextID" /\ last.err = "ok"
    THEN [issued EXCEPT ![last.entity] = @ \cup {last.id}]
    ELSE issued

SeqFrame ==
    /\ issued' = SeqIssuedNow
    /\ UNCHANGED <<object, sqlVars, files, graphVars, localNextID, mu, ret, srvVars>>

\* lock.Lock(), MkdirAll, the read of the current value
SeqRead(e) ==
    /\ pc[1] = "idle"
    /\ idLocks[e] = 0
    /\ ReadNextID(e) <= MaxSeqId
    /\ idLocks' = [idLocks EXCEPT ![e] = 1]
    /\ localNextID' = [localNextID EXCEPT ![1] = ReadNextID(e)]
    /\ pc' = [pc EXCEPT ![1] = "read"]
    /\ last' = [op |-> "NextID", entity |-> e, id |-> 0, err |-> "running", c |-> 0]
    /\ issued' = SeqIssuedNow
    /\ UNCHANGED <<object, sqlVars, fileVars, graphVars, mu, ret, srvVars>>

\* the open of os.WriteFile(nextIDFile, data, 0644): the file is created or
\* truncated
SeqOpen ==
    /\ pc[1] = "read"
    /\ nextIdFile' = Put(nextIdFile, last.entity, <<>>)
    /\ pc' = [pc EXCEPT ![1] = "opened"]
    /\ UNCHANGED <<last, idLocks>>
    /\ SeqFrame

\* the write of os.WriteFile and its close
SeqWrite ==
    /\ pc[1] = "opened"
    /\ nextIdFile' = Put(nextIdFile, last.entity, SeqText(localNextID[1] + 1))
    /\ pc' = [pc EXCEPT ![1] = "written"]
    /\ UNCHANGED <<last, idLocks>>
    /\ SeqFrame

\* the write returns an error after part of the text: NextID returns 0 and
\* the error
SeqWriteFails ==
    /\ pc[1] = "opened"
    /\ \E n \in 0..(Len(SeqText(0)) - 1) :
          nextIdFile' = Put(nextIdFile, last.entity,
                            SubSeq(SeqText(localNextID[1] + 1), 1, n))
    /\ pc' = [pc EXCEPT ![1] = "idle"]
    /\ idLocks' = [idLocks EXCEPT ![last.entity] = 0]
    /\ last' = [last EXCEPT !.err = "EIO"]
    /\ SeqFrame

\* return nextID, nil, and the deferred lock.Unlock()
SeqReturn ==
    /\ pc[1] = "written"
    /\ pc' = [pc EXCEPT ![1] = "idle"]
    /\ idLocks' = [idLocks EXCEPT ![last.entity] = 0]
    /\ last' = [last EXCEPT !.id = localNextID[1], !.err = "ok"]
    /\ UNCHANGED nextIdFile
    /\ SeqFrame

\* the process stops during NextID and the store is opened again; a stop
\* during the write leaves any part of the text in the file
SeqCrash ==
    /\ pc[1] \in {"read", "opened", "written"}
    /\ IF pc[1] = "opened"
       THEN \E n \in 0..Len(SeqText(0)) :
               nextIdFile' = Put(nextIdFile, last.entity,
                                 SubSeq(SeqText(localNextID[1] + 1), 1, n))
       ELSE UNCHANGED nextIdFile
    /\ pc' = [pc EXCEPT ![1] = "idle"]
    /\ idLocks' = [idLocks EXCEPT ![last.entity] = 0]
    /\ last' = [last EXCEPT !.err = "crash"]
    /\ SeqFrame

NextSeq ==
    \/ \E e \in Entities : SeqRead(e)
    \/ SeqOpen
    \/ SeqWrite
    \/ SeqWriteFails
    \/ SeqReturn
    \/ SeqCrash

SpecSeq == InitDisk /\ [][NextSeq]_vars

----------------------------------------------------------------------------
(* FindPath on graphs with several routes between two nodes.  The edges     *)
(* lead from users:i to users:i+1 and users:i+2, and back to users:i-1, so  *)
(* that a short and a long route to one node, and cycles, exist.            *)

\* largest id of a node of the graphs of this section
MaxRouteNode == 5
\* largest number of edges of the graphs of this section
MaxRouteEdges == 5

RouteIds == 1..MaxRouteNode

RouteEdges ==
    {<<i, j>> \in RouteIds \X RouteIds : j \in {i + 1, i + 2, i - 1}}

RouteAddEdge(i, j) ==
    LET g == AddEdgeTo(Graph(adjacency, reverse), NodeID("users", i),
                       NodeID("users", j), <<"manager">>)
    IN  /\ EdgeCount(g.adjacency) <= MaxRouteEdges
        /\ adjacency' = g.adjacency
        /\ reverse' = g.reverse
        /\ gLast' = [op |-> "AddEdge"]
        /\ UNCHANGED <<object, srvVars, sqlVars, fileVars, histVars, concVars, graphFile>>

\* one maxDepth that excludes the longer routes and one that excludes none
NextRoute ==
    \/ \E e \in RouteEdges : RouteAddEdge(e[1], e[2])
    \/ \E j \in RouteIds : \E d \in {MaxRouteNode - 2, MaxRouteNode + 1} :
          FindPath(NodeID("users", 1), NodeID("users", j), d)

SpecRoute == InitPath /\ [][NextRoute]_vars

----------------------------------------------------------------------------
(* The two stores side by side: the same Create and Patch calls are made on *)
(* a SQLiteStore and on a JSONFileStore that both start empty, so that what *)
(* Get reads back from the one can be compared with the other.              *)

\* largest id of a document of this section
MaxPairId == 2

PairIds == 1..MaxPairId

PairPatches == {[age |-> FloatNum(60)], [email |-> Null], [id |-> FloatNum(18)],
                [manager |-> RefObj("users", FloatNum(2))]}

\* the files after Patch: Get, the merge, Update
FilePatchWrite(e, id, patchData) ==
    IF ~FileExists(e, id)
    THEN UNCHANGED fileVars
    ELSE FileUpdateWrite(e, id, FileMerge(FileGetResult(e, id).doc, patchData))

PairFrame == UNCHANGED <<object, srvVars, concVars, graphVars>>

PairCreate(e, data) ==
    /\ SqlNextID(e) <= MaxPairId
    /\ SqlCreateTx(e, data)
    /\ FileCreateWrite(e, data)
    /\ Returned("Create", e, SqlNextID(e), "ok", FileNextID(e))
    /\ PairFrame

PairPatch(e, id, patchData) ==
    /\ SqlPatchTx(e, id, patchData)
    /\ FilePatchWrite(e, id, patchData)
    /\ Returned("Patch", e, id, IF SqlExists(e, id) THEN "ok" ELSE "ErrNotFound",
                FileNextID(e))
    /\ PairFrame

InitPair == object = "both" /\ InitStores

NextPair ==
    \/ \E e \in Entities, d \in CreateBodies : PairCreate(e, d)
    \/ \E e \in Entities, id \in PairIds, u \in PairPatches : PairPatch(e, id, u)

SpecPair == InitPair /\ [][NextPair]_vars

----------------------------------------------------------------------------
(* Concurrent Save: each caller calls Save once on a store that starts      *)
(* empty.  SQLiteStore.Save runs its existence check and its transaction    *)
(* while holding s.mu; JSONFileStore.Save is Exists (os.Stat) followed by   *)
(* os.WriteFile and takes no lock.                                          *)

SaveCallers == {1, 2}

\* largest id the callers save under
MaxRaceId == 2

RaceIds == 1..MaxRaceId

RaceDocs == {DocPlain, BodyUser}

RaceFrame == UNCHANGED <<object, graphVars, issued, last, localNextID, idLocks, ret,
                         config, tmpFile, gmu, cache>>

\* JSONFileStore.Save: if s.Exists(ctx, entity, id) { return ErrAlreadyExists }
FileSaveCheck(p, e, id, data) ==
    /\ object = "JSONFileStore"
    /\ pc[p] = "idle"
    /\ local' = [local EXCEPT ![p] =
                   [entity |-> e, id |-> id, data |-> data,
                    err |-> IF FileExists(e, id) THEN "ErrAlreadyExists" ELSE "running"]]
    /\ pc' = [pc EXCEPT ![p] = IF FileExists(e, id) THEN "returned" ELSE "checked"]
    /\ UNCHANGED <<sqlVars, fileVars, mu>>
    /\ RaceFrame

\* JSONFileStore.Save: MkdirAll, data["id"] = id, MarshalIndent, os.WriteFile
FileSaveWriteFile(p) ==
    /\ pc[p] = "checked"
    /\ FileSaveWrite(local[p].entity, local[p].id, local[p].data)
    /\ local' = [local EXCEPT ![p].err = "ok"]
    /\ pc' = [pc EXCEPT ![p] = "returned"]
    /\ UNCHANGED <<sqlVars, mu>>
    /\ RaceFrame

\* SQLiteStore.Save: s.mu.Lock()
SqlSaveLock(p, e, id, data) ==
    /\ object = "SQLiteStore"
    /\ pc[p] = "idle"
    /\ mu = 0
    /\ mu' = p
    /\ local' = [local EXCEPT ![p] =
                   [entity |-> e, id |-> id, data |-> data, err |-> "running"]]
    /\ pc' = [pc EXCEPT ![p] = "locked"]
    /\ UNCHANGED <<sqlVars, fileVars>>
    /\ RaceFrame

\* SQLiteStore.Save: the existence check, the transaction, the deferred Unlock
SqlSaveCommit(p) ==
    /\ pc[p] = "locked"
    /\ mu = p
    /\ IF SqlExists(local[p].entity, local[p].id)
       THEN /\ UNCHANGED sqlVars
            /\ local' = [local EXCEPT ![p].err = "ErrAlreadyExists"]
       ELSE /\ SqlSaveTx(local[p].entity, local[p].id, local[p].data)
            /\ local' = [local EXCEPT ![p].err = "ok"]
    /\ mu' = 0
    /\ pc' = [pc EXCEPT ![p] = "returned"]
    /\ UNCHANGED fileVars
    /\ RaceFrame

InitRace == InitStore

NextRace ==
    \/ \E p \in SaveCallers, e \in Entities, id \in RaceIds, d \in RaceDocs :
          FileSaveCheck(p, e, id, d)
    \/ \E p \in SaveCallers : FileSaveWriteFile(p)
    \/ \E p \in SaveCallers, e \in Entities, id \in RaceIds, d \in RaceDocs :
          SqlSaveLock(p, e, id, d)
    \/ \E p \in SaveCallers : SqlSaveCommit(p)

SpecRace == InitRace /\ [][NextRace]_vars

----------------------------------------------------------------------------
(* Concurrent requests on the server and the response cache.  Each request  *)
(* runs in its own goroutine; the handlers take no lock of their own, so    *)
(* another request can run between any two calls a handler makes.  GET is   *)
(* cache.Get, storage.Get, cache.Set; PUT is storage.Update followed by     *)
(* invalidateCache; DELETE is storage.Delete followed by invalidateCache.   *)
(* The graph is switched off, and embed_depth is not passed.                *)

CacheConfigs ==
    [GraphEnabled : {FALSE}, PatchNullBehavior : {"store"},
     CascadingDelete : {FALSE}, MaxCascadeDeletions : {MaxCeiling}]

PutBodies == {[name |-> Str("B")], [name |-> Str("C")]}

CacheFrame == UNCHANGED <<object, graphVars, localNextID, idLocks, mu, ret, config,
                          tmpFile, gmu>>

\* handleGet: s.cache.Get(ctx, cacheKey), answered from the cache on a hit
handleGetCache(p, e, id) ==
    /\ pc[p] = "idle"
    /\ IF <<e, id>> \in DOMAIN cache
       THEN /\ Returned("handleGet", e, id, "200", cache[<<e, id>>])
            /\ UNCHANGED <<pc, local>>
       ELSE /\ pc' = [pc EXCEPT ![p] = "missed"]
            /\ local' = [local EXCEPT ![p] = [entity |-> e, id |-> id]]
            /\ UNCHANGED histVars
    /\ UNCHANGED <<sqlVars, fileVars, cache>>
    /\ CacheFrame

\* handleGet: s.storage.Get(ctx, entity, id), answered with 404 on not found
handleGetStorage(p) ==
    /\ pc[p] = "missed"
    /\ LET r == GetResult(local[p].entity, local[p].id)
       IN  IF r.err # "ok"
           THEN /\ Returned("handleGet", local[p].entity, local[p].id, "404", EmptyMap)
                /\ pc' = [pc EXCEPT ![p] = "idle"]
                /\ local' = [local EXCEPT ![p] = EmptyMap]
           ELSE /\ pc' = [pc EXCEPT ![p] = "read"]
                /\ local' = [local EXCEPT ![p] = [entity |-> local[p].entity,
                                                  id |-> local[p].id, data |-> r.doc]]
                /\ UNCHANGED histVars
    /\ UNCHANGED <<sqlVars, fileVars, cache>>
    /\ CacheFrame

\* handleGet: s.cache.Set(ctx, cacheKey, data, ttl) and the response
handleGetSet(p) ==
    /\ pc[p] = "read"
    /\ cache' = Put(cache, <<local[p].entity, local[p].id>>, local[p].data)
    /\ Returned("handleGet", local[p].entity, local[p].id, "200", local[p].data)
    /\ pc' = [pc EXCEPT ![p] = "idle"]
    /\ local' = [local EXCEPT ![p] = EmptyMap]
    /\ UNCHANGED <<sqlVars, fileVars>>
    /\ CacheFrame

\* handleUpdate: data["id"] = id, s.storage.Update, answered with 404 on not
\* found
handleUpdateStorage(p, e, id, body) ==
    /\ pc[p] = "idle"
    /\ IF GetResult(e, id).err # "ok"
       THEN /\ Returned("handleUpdate", e, id, "404", EmptyMap)
            /\ UNCHANGED <<sqlVars, fileVars, pc, local>>
       ELSE /\ StorageUpdate(e, id, Put(body, "id", IntNum(id)))
            /\ pc' = [pc EXCEPT ![p] = "stored"]
            /\ local' = [local EXCEPT ![p] = [entity |-> e, id |-> id]]
            /\ UNCHANGED histVars
    /\ UNCHANGED cache
    /\ CacheFrame

\* handleDelete: s.storage.Exists, s.storage.Delete
handleDeleteStorage(p, e, id) ==
    /\ pc[p] = "idle"
    /\ IF GetResult(e, id).err # "ok"
       THEN /\ Returned("handleDelete", e, id, "404", EmptyMap)
            /\ UNCHANGED <<sqlVars, fileVars, pc, local>>
       ELSE /\ StorageDelete(DeletedRefs(e, id))
            /\ pc' = [pc EXCEPT ![p] = "stored"]
            /\ local' = [local EXCEPT ![p] = [entity |-> e, id |-> id]]
            /\ UNCHANGED histVars
    /\ UNCHANGED cache
    /\ CacheFrame

\* handleUpdate, handleDelete: s.invalidateCache(entity) and the response
handleInvalidate(p) ==
    /\ pc[p] = "stored"
    /\ invalidateCache(local[p].entity)
    /\ Returned("mutation", local[p].entity, local[p].id, "200", EmptyMap)
    /\ pc' = [pc EXCEPT ![p] = "idle"]
    /\ local' = [local EXCEPT ![p] = EmptyMap]
    /\ UNCHANGED <<sqlVars, fileVars>>
    /\ CacheFrame

InitCache ==
    /\ object \in {"SQLiteStore", "JSONFileStore"}
    /\ entities = EmptyMap
    /\ graph_edges = {}
    /\ entity_sequences = EmptyMap
    /\ files = EmptyMap
    /\ nextIdFile = EmptyMap
    /\ graphFile = NoFile
    /\ InitState
    /\ config \in CacheConfigs

NextCache ==
    \/ \E e \in Entities :
          NextCreateID(e) <= MaxSrvId /\ handleCreate(e, BodyUser)
    \/ \E p \in SaveCallers, e \in Entities, id \in SrvIds : handleGetCache(p, e, id)
    \/ \E p \in SaveCallers : handleGetStorage(p)
    \/ \E p \in SaveCallers : handleGetSet(p)
    \/ \E p \in SaveCallers, e \in Entities, id \in SrvIds, body \in PutBodies :
          handleUpdateStorage(p, e, id, body)
    \/ \E p \in SaveCallers, e \in Entities, id \in SrvIds : handleDeleteStorage(p, e, id)
    \/ \E p \in SaveCallers : handleInvalidate(p)

SpecCache == InitCache /\ [][NextCache]_vars

----------------------------------------------------------------------------
(* storage.WithTransaction(ctx, store, fn).  The store is used through a    *)
(* Transaction handle while fn runs; fn makes some calls on the handle and  *)
(* then returns nil, returns an error, or panics.  WithTransaction begins a *)
(* transaction when the store has the method Begin of the interface         *)
(* Transactional; otherwise the handle is a pseudoTransaction, whose calls  *)
(* go to the store's own methods and whose Commit and Rollback return nil.  *)

\* largest id a call of fn creates or names
MaxFnId == 2
\* largest number of calls fn makes on the handle
MaxFnCalls == 2

FnIds == 1..MaxFnId

\* the stores with a method Begin(ctx) (Transaction, error): neither
\* SQLiteStore nor JSONFileStore has one
Transactional == {}

\* SQLiteStore.Info().SupportsTransaction
SupportsTransaction == object = "SQLiteStore"

FnOutcomes == {"ok", "error", "panic"}

SqlTables == <<entities, graph_edges, entity_sequences>>

FnFrame == UNCHANGED <<object, fileVars, graphVars, issued, localNextID, idLocks, mu,
                       ret, config, tmpFile, gmu, cache>>

\* the type assertion store.(Transactional) fails: pseudoTx := &pseudoTransaction{store}
WithTransaction ==
    /\ pc[1] = "idle"
    /\ object \notin Transactional
    /\ pc' = [pc EXCEPT ![1] = "fn"]
    /\ local' = [local EXCEPT ![1] = [calls |-> 0]]
    /\ last' = [op |-> "WithTransaction", entity |-> "", id |-> 0, err |-> "running",
                c |-> [before |-> SqlTables, handle |-> SqlTables]]
    /\ UNCHANGED sqlVars
    /\ FnFrame

\* one call of fn on the handle; last.c.handle is what the handle holds after it
FnCalls(effect) ==
    /\ pc[1] = "fn"
    /\ local[1].calls < MaxFnCalls
    /\ effect
    /\ local' = [local EXCEPT ![1].calls = @ + 1]
    /\ last' = [last EXCEPT !.c.handle = SqlTables']
    /\ UNCHANGED pc
    /\ FnFrame

\* pseudoTransaction.Create, Patch, Save: pt.store.Create, Patch, Save
pseudoCreate(e, data) == SqlNextID(e) <= MaxFnId /\ FnCalls(SqlCreateTx(e, data))

pseudoPatch(e, id, updates) == FnCalls(SqlPatchTx(e, id, updates))

pseudoSave(e, id, data) == ~SqlExists(e, id) /\ FnCalls(SqlSaveTx(e, id, data))

\* fn returns: pseudoTx.Commit and pseudoTx.Rollback return nil and do
\* nothing; a panic of fn leaves WithTransaction without either
FnReturns(outcome) ==
    /\ pc[1] = "fn"
    /\ pc' = [pc EXCEPT ![1] = "idle"]
    /\ local' = [local EXCEPT ![1] = EmptyMap]
    /\ last' = [last EXCEPT !.err = outcome]
    /\ UNCHANGED sqlVars
    /\ FnFrame

NextFn ==
    \/ WithTransaction
    \/ \E e \in Entities, d \in CreateBodies : pseudoCreate(e, d)
    \/ \E e \in Entities, id \in FnIds, u \in PairPatches : pseudoPatch(e, id, u)
    \/ \E e \in Entities, id \in FnIds : pseudoSave(e, id, DocPlain)
    \/ \E outcome \in FnOutcomes : FnReturns(outcome)

SpecFn == InitSQL /\ [][NextFn]_vars

----------------------------------------------------------------------------
(* The locks of the stores and of the graph.  An operation is the sequence  *)
(* of lock calls its code makes; what it does to the data between them does *)
(* not decide which lock it takes next.  In this section mu and gmu hold    *)
(* the state of a sync.RWMutex, and idLocks holds JSONFileStore.idMutex     *)
(* together with the map idLocks.  A sync.RWMutex is the writer holding it, *)
(* the readers holding it, and the writer that has announced itself: Lock   *)
(* first excludes other writers and new readers and then waits for the      *)
(* readers to leave.  A sync.Mutex is the same with no readers.             *)

LockCallers == {1, 2}

FreeLock == [writer |-> 0, readers |-> {}, waiting |-> {}]

Ins(act, m) == [act |-> act, m |-> m]

\* SQLiteStore.Create, Update, Delete, RebuildGraph: s.mu.Lock(), defer s.mu.Unlock()
SqlWriteLocks == <<Ins("Lock", "mu"), Ins("Unlock", "mu")>>

\* a Patch that reads the row with s.Get while it holds s.mu
SqlPatchLocks_ViaGet ==
    <<Ins("Lock", "mu"), Ins("RLock", "mu"), Ins("RUnlock", "mu"), Ins("Unlock", "mu")>>

\* SQLiteStore.Patch: s.mu.Lock(); the row is read with tx.QueryRowContext
SqlPatchLocks == <<Ins("Lock", "mu"), Ins("Unlock", "mu")>>

\* SQLiteStore.Save: s.mu.Lock(); the existence check is s.db.QueryRowContext
SqlSaveLocks == <<Ins("Lock", "mu"), Ins("Unlock", "mu")>>

\* SQLiteStore.Get, List, Exists, Search, GetNeighbors: s.mu.RLock()
SqlReadLocks == <<Ins("RLock", "mu"), Ins("RUnlock", "mu")>>

\* JSONFileStore.NextID: getIDLock (idMutex around the map), then the lock
\* of the entity around the read and the write of _next_id.json
NextIDLocks ==
    <<Ins("Lock", "idMutex"), Ins("make", "idLock"), Ins("Unlock", "idMutex"),
      Ins("Lock", "idLock"), Ins("Unlock", "idLock")>>

\* IndexedGraph.AddNode, AddEdge, RemoveNode, RemoveEdge, Load, Clear
GraphWriteLocks == <<Ins("Lock", "gmu"), Ins("Unlock", "gmu")>>

\* IndexedGraph.GetNeighbors, FindPath, HasCycle, Save
GraphReadLocks == <<Ins("RLock", "gmu"), Ins("RUnlock", "gmu")>>

\* IndexedGraph.UpdateFromEntity on a document with one reference: AddNode,
\* then AddEdge; the method takes no lock of its own
UpdateFromEntityLocks == GraphWriteLocks \o GraphWriteLocks

\* the calls of the store the server was started with; JSONFileStore takes a
\* lock in NextID only
StorageCreateLocks == IF object = "SQLiteStore" THEN SqlWriteLocks ELSE NextIDLocks
StorageReadLocks   == IF object = "SQLiteStore" THEN SqlReadLocks ELSE <<>>
StorageUpdateLocks == IF object = "SQLiteStore" THEN SqlWriteLocks ELSE <<>>
StoragePatchLocks  == IF object = "SQLiteStore" THEN SqlPatchLocks ELSE <<>>
StorageSaveLocks   == IF object = "SQLiteStore" THEN SqlSaveLocks ELSE <<>>

\* handleCreate: storage.Create, graph.UpdateFromEntity, graph.Save
handleCreateLocks == StorageCreateLocks \o UpdateFromEntityLocks \o GraphReadLocks

\* handlePatch: storage.Get, storage.Update, graph.UpdateFromEntity, graph.Save
handlePatchLocks ==
    StorageReadLocks \o StorageUpdateLocks \o UpdateFromEntityLocks \o GraphReadLocks

\* handleDelete: storage.Exists, storage.Delete, graph.RemoveNode, graph.Save
handleDeleteLocks ==
    StorageReadLocks \o StorageUpdateLocks \o GraphWriteLocks \o GraphReadLocks

\* handleSave: storage.Exists, storage.Save, graph.UpdateFromEntity, graph.Save
handleSaveLocks ==
    StorageReadLocks \o StorageSaveLocks \o UpdateFromEntityLocks \o GraphReadLocks

\* the operations a caller can start
Operations ==
    {StorageCreateLocks, StorageReadLocks, StorageUpdateLocks, StoragePatchLocks,
     StorageSaveLocks, GraphWriteLocks, GraphReadLocks, UpdateFromEntityLocks,
     handleCreateLocks, handlePatchLocks, handleDeleteLocks, handleSaveLocks}
        \ {<<>>}

\* the lock an instruction names
LockOf(m) ==
    IF m = "mu" THEN mu
    ELSE IF m = "gmu" THEN gmu
    ELSE IF m = "idMutex" THEN idLocks.mutex
    ELSE idLocks.locks["users"]

SetLock(m, l) ==
    /\ mu' = IF m = "mu" THEN l ELSE mu
    /\ gmu' = IF m = "gmu" THEN l ELSE gmu
    /\ idLocks' = IF m = "idMutex" THEN [idLocks EXCEPT !.mutex = l]
                  ELSE IF m = "idLock" THEN [idLocks EXCEPT !.locks["users"] = l]
                  ELSE idLocks

LockFrame == UNCHANGED <<object, sqlVars, fileVars, histVars, graphVars, localNextID,
                         ret, config, tmpFile, cache>>

\* the instruction caller p is at
At(p) == local[p].prog[local[p].at]

\* the caller moves to its next instruction, or returns after the last one
Advance(p) ==
    IF local[p].at = Len(local[p].prog)
    THEN /\ pc' = [pc EXCEPT ![p] = "idle"]
         /\ local' = [local EXCEPT ![p] = EmptyMap]
    ELSE /\ local' = [local EXCEPT ![p].at = @ + 1]
         /\ UNCHANGED pc

Call(p, prog) ==
    /\ pc[p] = "idle"
    /\ pc' = [pc EXCEPT ![p] = "running"]
    /\ local' = [local EXCEPT ![p] = [prog |-> prog, at |-> 1]]
    /\ UNCHANGED <<mu, gmu, idLocks>>
    /\ LockFrame

\* Lock, first half: no writer holds the lock or has announced itself
LockAnnounce(p) ==
    /\ pc[p] = "running"
    /\ At(p).act = "Lock"
    /\ LockOf(At(p).m).writer = 0
    /\ LockOf(At(p).m).waiting = {}
    /\ SetLock(At(p).m, [LockOf(At(p).m) EXCEPT !.waiting = {p}])
    /\ UNCHANGED <<pc, local>>
    /\ LockFrame

\* Lock, second half: the readers have left
LockAcquire(p) ==
    /\ pc[p] = "running"
    /\ At(p).act = "Lock"
    /\ LockOf(At(p).m).waiting = {p}
    /\ LockOf(At(p).m).readers = {}
    /\ SetLock(At(p).m, [LockOf(At(p).m) EXCEPT !.waiting = {}, !.writer = p])
    /\ Advance(p)
    /\ LockFrame

Unlock(p) ==
    /\ pc[p] = "running"
    /\ At(p).act = "Unlock"
    /\ SetLock(At(p).m, [LockOf(At(p).m) EXCEPT !.writer = 0])
    /\ Advance(p)
    /\ LockFrame

\* RLock waits while a writer holds the lock or has announced itself
RLock(p) ==
    /\ pc[p] = "running"
    /\ At(p).act = "RLock"
    /\ LockOf(At(p).m).writer = 0
    /\ LockOf(At(p).m).waiting = {}
    /\ SetLock(At(p).m, [LockOf(At(p).m) EXCEPT !.readers = @ \cup {p}])
    /\ Advance(p)
    /\ LockFrame

RUnlock(p) ==
    /\ pc[p] = "running"
    /\ At(p).act = "RUnlock"
    /\ SetLock(At(p).m, [LockOf(At(p).m) EXCEPT !.readers = @ \ {p}])
    /\ Advance(p)
    /\ LockFrame

\* getIDLock: the lock of the entity is made on the first call
MakeIDLock(p) ==
    /\ pc[p] = "running"
    /\ At(p).act = "make"
    /\ idLocks' = IF "users" \in DOMAIN idLocks.locks THEN idLocks
                  ELSE [idLocks EXCEPT !.locks = [e \in {"users"} |-> FreeLock]]
    /\ UNCHANGED <<mu, gmu>>
    /\ Advance(p)
    /\ LockFrame

InitLocks ==
    /\ object \in {"SQLiteStore", "JSONFileStore"}
    /\ entities = EmptyMap
    /\ graph_edges = {}
    /\ entity_sequences = EmptyMap
    /\ files = EmptyMap
    /\ nextIdFile = EmptyMap
    /\ graphFile = NoFile
    /\ last = NoCall
    /\ issued = [e \in Entities |-> {}]
    /\ pc = [p \in Procs |-> "idle"]
    /\ localNextID = [p \in Procs |-> 0]
    /\ idLocks = [mutex |-> FreeLock, locks |-> EmptyMap]
    /\ mu = FreeLock
    /\ ret = [p \in Procs |-> 0]
    /\ adjacency = EmptyMap
    /\ reverse = EmptyMap
    /\ gLast = NoGraphCall
    /\ local = [p \in Procs |-> EmptyMap]
    /\ tmpFile = NoFile
    /\ gmu = FreeLock
    /\ cache = EmptyMap
    /\ config = DefaultConfig

StepOf(p) ==
    \/ LockAnnounce(p)
    \/ LockAcquire(p)
    \/ Unlock(p)
    \/ RLock(p)
    \/ RUnlock(p)
    \/ MakeIDLock(p)

NextLocks ==
    \/ \E p \in LockCallers, prog \in Operations : Call(p, prog)
    \/ \E p \in LockCallers : LockAnnounce(p)
    \/ \E p \in LockCallers : LockAcquire(p)
    \/ \E p \in LockCallers : Unlock(p)
    \/ \E p \in LockCallers : RLock(p)
    \/ \E p \in LockCallers : RUnlock(p)
    \/ \E p \in LockCallers : MakeIDLock(p)

SpecLocks == InitLocks /\ [][NextLocks]_vars

\* the scheduler runs every goroutine that can run; a sync.Mutex hands the
\* lock to a goroutine that has waited (starvation mode), and a
\* sync.RWMutex lets the readers that waited in after a writer, so a caller
\* whose lock is free again and again gets it
FairLocks ==
    \A p \in LockCallers :
        /\ WF_vars(LockAcquire(p) \/ Unlock(p) \/ RUnlock(p) \/ MakeIDLock(p))
        /\ SF_vars(LockAnnounce(p))
        /\ SF_vars(RLock(p))

SpecLocksFair == SpecLocks /\ FairLocks

\* every object of the module
Init ==
    \/ InitStore
    \/ InitGraph

Next ==
    \/ object = "SQLiteStore" /\ NextSQL
    \/ object = "JSONFileStore" /\ NextFile
    \/ object = "IndexedGraph" /\ NextGraph

Spec == Init /\ [][Next]_vars

----------------------------------------------------------------------------
(* Claims about the stores *)

Max(a, b) == IF a >= b THEN a ELSE b

\* a value is a reference: an object with type "REF", a non-empty string
\* entity and an integer-valued id >= 1
HoldsReference(v) ==
    /\ v.k = "obj"
    /\ "type" \in DOMAIN v.o /\ v.o["type"] = Str("REF")
    /\ "entity" \in DOMAIN v.o /\ v.o["entity"].k = "str" /\ v.o["entity"].s # ""
    /\ "id" \in DOMAIN v.o /\ v.o["id"].k = "num"
    /\ v.o["id"].h % 2 = 0 /\ v.o["id"].h >= 2

DocReferences(d) ==
    {<<f, d[f].o["entity"].s, d[f].o["id"].h \div 2>> :
        f \in {g \in DOMAIN d : HoldsReference(d[g])}}

OutEdges(e, id) ==
    {<<r.relationship_name, r.target_entity, r.target_id>> :
        r \in {x \in graph_edges : x.source_entity = e /\ x.source_id = id}}

\* C1: SQLite backend: for every stored document (e,id) the graph_edges rows
\* whose source is (e,id) are exactly the references held by the top-level
\* fields of the document, also when the referenced target does not exist or
\* has been deleted.
C1_EdgesEqualReferences ==
    \A key \in DOMAIN entities :
        OutEdges(key[1], key[2]) = DocReferences(entities[key])

\* C3: File backend: every id returned by Create is strictly greater than
\* every id returned by an earlier Create or accepted by an earlier Save of
\* that entity.
C3_FileCreateIdIsNew ==
    (object = "JSONFileStore" /\ last.op = "Create" /\ last.err = "ok")
        => \A i \in issued[last.entity] : last.id > i

\* C4: SQLite backend: every id returned by Create is strictly greater than
\* every id returned by an earlier Create or accepted by an earlier Save of
\* that entity; ids are not reused after the document holding the highest
\* id is deleted.
C4_SqlCreateIdIsNew ==
    (object = "SQLiteStore" /\ last.op = "Create" /\ last.err = "ok")
        => \A i \in issued[last.entity] : i < last.id

\* a Create that returned after a Save was accepted and after the document
\* with the highest issued id was deleted
C4_Witness ==
    /\ object = "SQLiteStore" /\ last.op = "Create" /\ last.err = "ok"
    /\ \E i \in issued[last.entity] :
          /\ \A j \in issued[last.entity] : j <= i
          /\ ~SqlExists(last.entity, i)
    /\ last.id = MaxId

\* C5: in both backends Save(e,n) moves the sequence to max(current, n+1):
\* the next Create(e) returns max(c, n+1), c being the id Create would have
\* returned just before the Save.
C5_SaveMovesSequence ==
    (last.op = "Save" /\ last.err = "ok")
        => NextCreateID(last.entity) = Max(last.c, last.id + 1)

AllCreated == \A p \in Procs : pc[p] = "done"

StoredDoc(e, id) ==
    IF object = "SQLiteStore"
    THEN IF SqlExists(e, id) THEN entities[<<e, id>>] ELSE EmptyMap
    ELSE IF FileExists(e, id) THEN files[<<e, id>>] ELSE EmptyMap

\* C6: in both backends, MaxCreators Create calls running concurrently on one
\* entity return pairwise distinct ids that form a contiguous range, and
\* afterwards every caller's document is stored under the id it got.
C6_ConcurrentCreatesDistinct ==
    AllCreated =>
        /\ \A p, q \in Procs : p # q => ret[p] # ret[q]
        /\ \A p, q \in Procs : ret[p] - ret[q] < MaxCreators
        /\ \A p \in Procs :
              StoredDoc(CreateEntity, ret[p])
                  = MarshalDoc(Put(CreatorDoc(p), "id", IntNum(ret[p])))

\* all callers returned from the file backend, and the ids were handed out
\* in another order than the callers are numbered
C6_Witness ==
    /\ AllCreated
    /\ object = "JSONFileStore"
    /\ ret[1] > ret[2]
    /\ FileExists(CreateEntity, 1)

----------------------------------------------------------------------------
(* Claims about the graph *)

\* the nodes the references of a document point to
ReferencedNodes(d) == {NodeID(r[2], r[3]) : r \in DocReferences(d)}

\* C2: in-memory graph: after UpdateFromEntity for node N with the new
\* document of N, the out-neighbours of N are exactly the nodes the document
\* references; no edge of an earlier document is left.
C2_OutNeighboursAreReferences ==
    gLast.op = "UpdateFromEntity"
        => DOMAIN adjacency[gLast.node] = ReferencedNodes(gLast.data)

\* C7: after SQLiteStore.Delete(e,id) no graph_edges row has (e,id) as source
\* or as target; after IndexedGraph.RemoveNode(n) n is not a key of adjacency
\* or reverse and no neighbour map of either mentions n.
C7_DeleteRemovesAllEdges ==
    /\ (object = "SQLiteStore" /\ last.op = "Delete" /\ last.err = "ok")
          => \A r \in graph_edges :
                /\ ~(r.source_entity = last.entity /\ r.source_id = last.id)
                /\ ~(r.target_entity = last.entity /\ r.target_id = last.id)
    /\ gLast.op = "RemoveNode"
          => /\ gLast.node \notin DOMAIN adjacency
             /\ gLast.node \notin DOMAIN reverse
             /\ \A m \in DOMAIN adjacency : gLast.node \notin DOMAIN adjacency[m]
             /\ \A m \in DOMAIN reverse : gLast.node \notin DOMAIN reverse[m]

\* a Delete whose document was the target of a reference that a stored
\* document still holds
C7_Witness ==
    /\ object = "SQLiteStore" /\ last.op = "Delete" /\ last.err = "ok"
    /\ \E key \in DOMAIN entities :
          \E r \in DocReferences(entities[key]) :
              r[2] = last.entity /\ r[3] = last.id

\* C8: Save followed by Load of the saved file gives back the adjacency and
\* reverse maps that were saved.
C8_SaveLoadIsIdentity ==
    (gLast.op = "Load" /\ "adjacency" \in DOMAIN gLast)
        => /\ adjacency = gLast.adjacency
           /\ reverse = gLast.reverse

\* C9: adjacency[u][v] = r if and only if reverse[v][u] = r, and the two maps
\* have the same node keys.
C9_ReverseMirrorsAdjacency ==
    /\ DOMAIN adjacency = DOMAIN reverse
    /\ \A u \in DOMAIN adjacency : \A v \in DOMAIN adjacency[u] :
          /\ v \in DOMAIN reverse
          /\ u \in DOMAIN reverse[v]
          /\ reverse[v][u] = adjacency[u][v]
    /\ \A v \in DOMAIN reverse : \A u \in DOMAIN reverse[v] :
          /\ u \in DOMAIN adjacency
          /\ v \in DOMAIN adjacency[u]
          /\ adjacency[u][v] = reverse[v][u]

\* an edge was removed from a graph that came out of Load and was extended
\* by later calls, and an edge read from the file remains
C9_Witness ==
    /\ gLast.op = "RemoveEdge"
    /\ EdgeCount(adjacency) = MaxEdges - 1
    /\ \E u \in DOMAIN adjacency : u \notin GraphNodes /\ adjacency[u] # EmptyMap
    /\ GraphNodes \cap DOMAIN adjacency # {}

\* the nodes some directed path of at most d edges leads to from a node of S
RECURSIVE ReachableWithin(_, _, _)
ReachableWithin(adj, S, d) ==
    IF d = 0 THEN S
    ELSE ReachableWithin(adj, S \cup UNION {DOMAIN adj[u] : u \in S}, d - 1)

\* C10: FindPath(from,to,maxDepth) with both endpoints present and
\* maxDepth >= 1 returns a path exactly if some directed path from `from` to
\* `to` has at most maxDepth edges; the path starts at from, ends at to, has
\* at most maxDepth edges and follows adjacency entries; otherwise the result
\* is the no-path error.
C10_FindPathWithinDepth ==
    (/\ gLast.op = "FindPath"
     /\ gLast.maxDepth >= 1
     /\ gLast.from \in DOMAIN adjacency
     /\ gLast.to \in DOMAIN adjacency)
        => /\ gLast.err = "ok"
                <=> gLast.to \in ReachableWithin(adjacency, {gLast.from}, gLast.maxDepth)
           /\ gLast.err = "ok"
                => /\ gLast.path[1] = gLast.from
                   /\ gLast.path[Len(gLast.path)] = gLast.to
                   /\ Len(gLast.path) - 1 <= gLast.maxDepth
                   /\ \A i \in 1..(Len(gLast.path) - 1) :
                         gLast.path[i + 1] \in DOMAIN adjacency[gLast.path[i]]
           /\ gLast.err # "ok" => gLast.err = "no path found"

\* C11: FindPath(a,a,d) on a present node a returns the one-node path <<a>>
\* and no error, for every d >= 0, d = 0 included.
C11_FindPathToSelf ==
    (/\ gLast.op = "FindPath"
     /\ gLast.from = gLast.to
     /\ gLast.from \in DOMAIN adjacency
     /\ gLast.maxDepth >= 0)
        => /\ gLast.err = "ok"
           /\ gLast.path = <<gLast.from>>

\* the graph has a directed cycle: some node is reached from one of its own
\* out-neighbours (a self-loop makes the node its own out-neighbour)
DirectedCycle(adj) ==
    \E u \in DOMAIN adj :
        u \in ReachableWithin(adj, DOMAIN adj[u], Cardinality(DOMAIN adj))

\* C12: HasCycle returns true exactly if the graph has a directed cycle, a
\* self-loop included; it leaves adjacency and reverse as they were, and on
\* an unchanged graph every call returns the same answer.
C12_HasCycleIffDirectedCycle ==
    gLast.op = "HasCycle"
        => /\ gLast.result = DirectedCycle(adjacency)
           /\ gLast.adjacency = adjacency
           /\ gLast.reverse = reverse
           /\ HasCycleResults(adjacency) = {gLast.result}

\* HasCycle has answered false on a graph where two edges meet in one node
C12_Witness ==
    /\ gLast.op = "HasCycle"
    /\ ~gLast.result
    /\ \E u \in DOMAIN reverse : Cardinality(DOMAIN reverse[u]) = 2

\* HasCycle has answered true on a graph without a self-loop
C12_WitnessCycle ==
    /\ gLast.op = "HasCycle"
    /\ gLast.result
    /\ \A u \in DOMAIN adjacency : u \notin DOMAIN adjacency[u]

\* C14: on both stores a successful Update(e,id,d) leaves Get(e,id)
\* returning exactly d with the field id set to id: the fields of the old
\* document are gone and an id inside d is replaced.
C14_UpdateReplacesDocument ==
    [][\A e \in Entities, id \in CallIds, d \in CallDocs :
          (StoreUpdate(e, id, d) /\ last'.err = "ok")
              => /\ GetResult(e, id)'.err = "ok"
                 /\ GetResult(e, id)'.doc = MarshalDoc(Put(d, "id", IntNum(id)))]_vars

\* an Update with a document that carried an id of its own has returned, and
\* Get returns that document under the id of the call
C14_Witness ==
    /\ last.op = "Update"
    /\ last.err = "ok"
    /\ GetResult(last.entity, last.id).doc
           = [email |-> Str("b@x"), id |-> FloatNum(2 * last.id)]

\* C15: on both stores a successful Patch(e,id,{}) leaves the document Get
\* returns and the out-edges of the node (e,id) exactly as they were.
C15_EmptyPatchChangesNothing ==
    [][\A e \in Entities, id \in CallIds :
          (StorePatch(e, id, EmptyMap) /\ last'.err = "ok")
              => /\ GetResult(e, id)' = GetResult(e, id)
                 /\ OutEdges(e, id)' = OutEdges(e, id)]_vars

\* the documents of the store that was built
StoredKeys == IF object = "SQLiteStore" THEN DOMAIN entities ELSE DOMAIN files

\* C16: an error outcome leaves the store as it was.  Get, Update, Patch and
\* Delete on an id that is not stored return the not-found error and create
\* nothing; Save on a stored id returns the already-exists error; in each
\* case documents, edges and the id sequence are unchanged.
C16_ErrorsChangeNothing ==
    [][/\ (/\ last'.op \in {"Get", "Update", "Patch", "Delete"}
           /\ <<last'.entity, last'.id>> \notin StoredKeys)
              => /\ last'.err = "ErrNotFound"
                 /\ UNCHANGED <<sqlVars, fileVars>>
       /\ (/\ last'.op = "Save"
           /\ <<last'.entity, last'.id>> \in StoredKeys)
              => /\ last'.err = "ErrAlreadyExists"
                 /\ UNCHANGED <<sqlVars, fileVars>>
       /\ last'.err # "ok" => UNCHANGED <<sqlVars, fileVars>>]_vars

\* a call on a missing document has returned not-found while the store holds
\* another document and an id sequence
C16_Witness ==
    /\ last.op \in {"Update", "Patch", "Delete"}
    /\ last.err = "ErrNotFound"
    /\ StoredKeys # {}
    /\ <<last.entity, last.id>> \notin StoredKeys

\* the step installs the whole effect of the call c on the committed tables:
\* the document and the rows of graph_edges derived from it, or, for Delete,
\* the removal of the row and of every edge at the node
CommittedTogether(c) ==
    IF c.op = "Delete"
    THEN /\ entities' = Del(entities, <<c.entity, c.id>>)
         /\ graph_edges' = DeleteEdgesOf(graph_edges, c.entity, c.id)
    ELSE /\ entities' = Put(entities, <<c.entity, c.id>>, MarshalDoc(c.data))
         /\ graph_edges' = syncGraphEdges(graph_edges, c.entity, c.id, c.data)

\* C20: SQLite backend: Create, Save, Update, Patch and Delete are atomic.
\* A call that returns an error, whichever statement failed, leaves
\* entities, graph_edges and entity_sequences exactly as they were; the
\* tables change only in the step of a successful commit, and that step
\* makes the document and its edges visible together.
C20_TransactionsAreAtomic ==
    [][\A p \in TxCallers :
          /\ (pc[p] = "tx" /\ pc'[p] = "idle" /\ last'.err # "ok")
                => UNCHANGED sqlVars
          /\ (pc[p] = "tx" /\ pc'[p] = "idle" /\ last'.err = "ok")
                => CommittedTogether(local[p].call)
          /\ (mu = p /\ ~(pc'[p] = "idle" /\ last'.err = "ok"))
                => UNCHANGED sqlVars
          /\ (mu = 0 /\ mu' = 0) => UNCHANGED sqlVars]_vars

\* an Update of a stored document with out-edges has returned an error of a
\* failed statement or commit
C20_Witness ==
    /\ last.op = "Update"
    /\ last.err = "error"
    /\ SqlExists(last.entity, last.id)
    /\ OutEdges(last.entity, last.id) # {}
    /\ \A p \in TxCallers : pc[p] = "idle"

\* the field key of the stored document new is what the PATCH of body
\* patchData makes of the document old under the null policy
PatchedField(old, new, patchData, policy, key) ==
    IF key = "id" \/ key \notin DOMAIN patchData
    THEN /\ key \in DOMAIN new <=> key \in DOMAIN old
         /\ key \in DOMAIN old => new[key] = old[key]
    ELSE IF patchData[key] = Null /\ policy = "delete"
    THEN key \notin DOMAIN new
    ELSE /\ key \in DOMAIN new
         /\ new[key] = JsonRoundTrip(patchData[key])

\* C13: a PATCH of a stored document through the handler ignores the key id
\* of the body, removes a field whose value is null under the policy
\* "delete" and stores the null under "store", assigns every other value,
\* and leaves the fields the body does not name as they were.
C13_HandlerPatchMerges ==
    [][\A e \in Entities, id \in SrvIds, body \in PatchBodies :
          (handlePatch(e, id, body) /\ GetResult(e, id).err = "ok")
              => /\ last'.err = "200"
                 /\ GetResult(e, id)'.err = "ok"
                 /\ \A key \in (DOMAIN GetResult(e, id).doc)
                                \cup (DOMAIN GetResult(e, id)'.doc)
                                \cup DOMAIN body :
                       PatchedField(GetResult(e, id).doc, GetResult(e, id)'.doc,
                                    body, config.PatchNullBehavior, key)]_vars

\* S4: {name: A, email: a@x} patched with {email: null, age: 30} is stored
\* as {id, name, age} under the policy "delete"
C13_Witness ==
    /\ last.op = "handlePatch"
    /\ last.err = "200"
    /\ config.PatchNullBehavior = "delete"
    /\ GetResult(last.entity, last.id).doc
          = [id |-> FloatNum(2 * last.id), name |-> Str("A"), age |-> FloatNum(60)]

\* S4 under the policy "store": {id, name, email: null, age}
C13_WitnessStore ==
    /\ last.op = "handlePatch"
    /\ last.err = "200"
    /\ config.PatchNullBehavior = "store"
    /\ GetResult(last.entity, last.id).doc
          = [id |-> FloatNum(2 * last.id), name |-> Str("A"), email |-> Null,
             age |-> FloatNum(60)]

\* C17: when two Patch calls, through Store.Patch or through the PATCH
\* handler, run concurrently on one document with disjoint fields and both
\* have returned, the stored document holds the fields of both calls.
C17_ConcurrentPatchesBothKept ==
    (\A p \in Patchers : pc[p] = "done")
        => \A p \in Patchers : \A key \in DOMAIN PatcherDoc(p) :
              /\ key \in DOMAIN StoredDoc(CreateEntity, PatchedId)
              /\ StoredDoc(CreateEntity, PatchedId)[key] = PatcherDoc(p)[key]

\* C18: on the file backend the document write, the graph update and the
\* graph.data flush of one mutation happen under the store's exclusive
\* lock, so a reader never finds the new document with the old edge set.
C18_ReaderNeverSeesTornState ==
    last.op = "Read" => last.err = "ok"

\* no two Save calls are between the creation of the temporary file and its
\* rename at once
C19_SavesDoNotInterleave ==
    \A p, q \in Savers : p # q => ~(pc[p] = "created" /\ pc[q] = "created")

\* once both Save calls have returned, graph.data is a complete
\* serialisation of the graph
C19_FileCompleteAfterSaves ==
    (\A p \in Savers : pc[p] = "done") => graphFile \in SavedFiles(adjacency)

\* C19: graph.data is written under the exclusive lock of the graph: two
\* concurrent Save calls on one file do not interleave their writes, and
\* after both have returned the file holds the complete serialisation of
\* one graph state.
C19_SaveIsExclusive ==
    /\ C19_SavesDoNotInterleave
    /\ C19_FileCompleteAfterSaves

\* C21: a document with two top-level fields that reference one target
\* yields one edge per field: after UpdateFromEntity the graph holds, for
\* every referencing field, an edge from the document's node to the target
\* under the name of that field.
C21_OneEdgePerField ==
    gLast.op = "UpdateFromEntity"
        => \A key \in RefKeys(gLast.data) :
              /\ gLast.node \in DOMAIN adjacency
              /\ RefNodeID(gLast.data[key]) \in DOMAIN adjacency[gLast.node]
              /\ adjacency[gLast.node][RefNodeID(gLast.data[key])] = <<key>>

\* an object with type "REF", a non-empty entity string and an id that is an
\* integer >= 1
WellFormedReference(v) ==
    /\ v.k = "obj"
    /\ {"type", "entity", "id"} \subseteq DOMAIN v.o
    /\ v.o["type"] = Str("REF")
    /\ v.o["entity"].k = "str"
    /\ v.o["entity"].s # ""
    /\ v.o["id"].k = "num"
    /\ v.o["id"].h % 2 = 0
    /\ v.o["id"].h >= 2

\* C22: IsReference(v) is true exactly when v is an object with type "REF",
\* a non-empty entity and an integer id >= 1; for every other value of a
\* field UpdateFromEntity derives no edge.
C22_IsReferenceIffWellFormed ==
    [][\A d \in RefDocs :
          UpdateFromEntity("users", 1, Put(d, "id", IntNum(1)))
              => /\ IsReference(d.manager) <=> WellFormedReference(d.manager)
                 /\ ~WellFormedReference(d.manager)
                       => adjacency'[NodeID("users", 1)]
                             = IF NodeID("users", 1) \in DOMAIN adjacency
                               THEN adjacency[NodeID("users", 1)] ELSE EmptyMap]_vars

\* C23: the edges syncGraphEdges inserts for a document are the edges
\* VerifyGraphIntegrity expects from it: a successful Create, Save, Update
\* or Patch on a store that passes the audit leaves a store that passes it.
C23_AuditPassesAfterSync ==
    [][(/\ VerifyResult = "ok"
        /\ last'.op \in {"Create", "Save", "Update", "Patch"}
        /\ last'.err = "ok")
           => VerifyResult' = "ok"]_vars

\* C24: after RebuildGraph the audit passes, whatever the tables held
\* before, and a second RebuildGraph would leave graph_edges as it is.
C24_RebuildPassesAudit ==
    last.op = "RebuildGraph"
        => /\ VerifyResult = "ok"
           /\ RebuiltEdges = graph_edges

\* the stored documents with a field that references the document (e, id)
Referrers(e, id) ==
    {k \in StoredKeys : <<e, id>> \in {<<r[2], r[3]>> : r \in DocReferences(StoredDoc(k[1], k[2]))}}

\* C25: with CascadingDelete, a DELETE of N that answers 200 also deletes
\* the documents that refer to N: afterwards N is gone, no stored document
\* holds a reference to N, and cascaded_deletes names N.
C25_CascadeDeletesReferrers ==
    (last.op = "handleDelete" /\ last.err = "200" /\ config.CascadingDelete
        /\ config.MaxCascadeDeletions >= MaxCascadeId)
        => /\ <<last.entity, last.id>> \notin StoredKeys
           /\ Referrers(last.entity, last.id) = {}
           /\ \E i \in 1..Len(last.c) : last.c[i] = NodeID(last.entity, last.id)

\* C26: cascadeDelete deletes no more documents than MaxCascadeDeletions, and
\* a DELETE whose cascade needs more deletions than the ceiling allows is
\* answered with an error: a 200 means that at least the named document was
\* deleted.
C26_CeilingAbortsWithError ==
    (last.op = "handleDelete" /\ config.CascadingDelete)
        => /\ Len(last.c) <= config.MaxCascadeDeletions
           /\ last.err = "200" => <<last.entity, last.id>> \notin StoredKeys

\* result is data with the references resolved depth levels deep: below
\* depth 0 nothing is resolved; otherwise a reference whose target is stored
\* holds the target resolved depth - 1 levels deep, and every other field is
\* the field of data
RECURSIVE ResolvedTo(_, _, _)
ResolvedTo(result, data, depth) ==
    IF depth = 0
    THEN result = data
    ELSE /\ DOMAIN result = DOMAIN data
         /\ \A k \in DOMAIN data :
               IF IsReference(data[k]) /\ <<RefEntity(data[k]), RefID(data[k])>> \in StoredKeys
               THEN /\ result[k].k = "obj"
                    /\ ResolvedTo(result[k].o,
                                  MarshalDoc(StoredDoc(RefEntity(data[k]), RefID(data[k]))),
                                  depth - 1)
               ELSE result[k] = data[k]

\* how many documents are nested in one another in a response
RECURSIVE EmbedLevels(_)
EmbedLevels(doc) ==
    LET inner == {k \in DOMAIN doc : doc[k].k = "obj" /\ ~IsReference(doc[k])}
    IN  IF inner = {} THEN 0
        ELSE 1 + CHOOSE n \in {EmbedLevels(doc[k].o) : k \in inner} :
                    \A k \in inner : EmbedLevels(doc[k].o) <= n

\* C27: a GET of a stored, uncached document with embed_depth = depth
\* answers with the document whose references are resolved depth levels
\* deep and no deeper, also when the references form a cycle; references to
\* missing documents and references below the last level stay as they are,
\* and neither store is written.
C27_EmbedResolvesToDepth ==
    [][\A e \in Entities, id \in EmbedIds, depth \in 0..MaxEmbed :
          (/\ last'.op = "handleGet"
           /\ handleGetEmbed(e, id, depth)
           /\ <<e, id>> \notin DOMAIN cache
           /\ GetResult(e, id).err = "ok")
              => /\ last'.err = "200"
                 /\ ResolvedTo(last'.c, GetResult(e, id).doc, depth)
                 /\ EmbedLevels(last'.c) <= depth
                 /\ UNCHANGED <<sqlVars, fileVars>>]_vars

\* the two documents refer to each other and the response to embed_depth = 2
\* holds users/2, which holds users/1 with its reference left as it is
C27_Witness ==
    /\ last.op = "handleGet"
    /\ last.err = "200"
    /\ last.id = 1
    /\ {<<"users", 1>>, <<"users", 2>>} \subseteq StoredKeys
    /\ last.c = [id |-> FloatNum(2), name |-> Str("E"),
                 manager |-> Obj([id |-> FloatNum(4), name |-> Str("E"),
                    manager |-> Obj([id |-> FloatNum(2), name |-> Str("E"),
                       manager |-> RefObj("users", FloatNum(4))])])]

\* the stored documents of entity e, one per id, by ascending id
DocsById(e) ==
    LET ids == SortedIds({k[2] : k \in {x \in StoredKeys : x[1] = e}})
    IN  [i \in 1..Len(ids) |-> MarshalDoc(StoredDoc(e, ids[i]))]

\* C28: List(entity) returns every stored document of the entity once, by
\* ascending numeric id, in both backends, and never the sequence file.
C28_ListAscendingById ==
    last.op = "List" => last.c = DocsById(last.entity)

\* query matches the string s under the match type, letter case aside
MatchesNoCase(s, query, matchType) ==
    CASE matchType = "exact"    -> ToLower(s) = ToLower(query)
      [] matchType = "contains" -> Contains(ToLower(s), ToLower(query))
      [] matchType = "starts"   -> HasPrefix(ToLower(s), ToLower(query))
      [] matchType = "ends"     -> HasSuffix(ToLower(s), ToLower(query))

\* C29: Search returns exactly the documents of the entity whose field
\* matches the query under the match type, compared without regard to
\* case in all four modes, by ascending id, in both backends.
C29_SearchMatchesNoCase ==
    [][\A e \in Entities, q \in Queries, m \in MatchTypes :
          (last'.op = "Search" /\ StoreSearch(e, "name", q, m))
              => last'.c = SelectSeq(DocsById(e),
                              LAMBDA d : /\ "name" \in DOMAIN d
                                         /\ MatchesNoCase(d.name.s, q, m))]_vars

\* C30: in both backends the id field of every stored document is the id
\* the document is stored under, also after Create, Update, Save and Patch
\* with a document or partial that carries another id.
C30_StoredIdIsKey ==
    \A k \in StoredKeys :
        /\ "id" \in DOMAIN StoredDoc(k[1], k[2])
        /\ StoredDoc(k[1], k[2])["id"] = FloatNum(2 * k[2])

\* Update with {email: b@x, id: 7} has stored the email under the id of the
\* call
C30_Witness ==
    /\ last.op = "Update"
    /\ last.err = "ok"
    /\ StoredDoc(last.entity, last.id)
          = [email |-> Str("b@x"), id |-> FloatNum(2 * last.id)]

\* Patch with {id: null, name: B} has set the name and kept the id
C30_WitnessPatch ==
    /\ last.op = "Patch"
    /\ last.err = "ok"
    /\ StoredDoc(last.entity, last.id)
          = [email |-> Str("b@x"), name |-> Str("B"), id |-> FloatNum(2 * last.id)]

\* C31: ids are integers >= 1: after any sequence of Create, Save, Update,
\* Patch and Delete every stored document has an id >= 1 and every Create
\* returns an id >= 1; a Save (the store call or POST /{entity}/save/{id})
\* with an id below 1 is rejected and stores nothing.
C31_IdsAtLeastOne ==
    /\ \A key \in StoredKeys :
          key[2] >= 1 /\ StoredDoc(key[1], key[2])["id"].h >= 2
    /\ (last.op = "Create" /\ last.err = "ok") => last.id >= 1
    /\ (last.op \in {"Save", "handleSave"} /\ last.id < 1)
          => last.err \notin {"ok", "201"}

\* C32: file backend: a Create, Save, Update or Patch that is interrupted by
\* a crash or fails with an I/O error leaves the destination file holding
\* either the complete previous document or the complete new one (or absent
\* if it was absent before), never a partial or empty one.
C32_DocumentWriteAtomic ==
    (last.op \in {"Create", "Save", "Update", "Patch"} /\ last.err \in {"crash", "EIO"})
        => DiskFile(last.entity, last.id) \in {last.c.before, last.c.jsonData}

\* C33: the id allocator of the file backend is crash-safe: NextID persists
\* the incremented counter before it returns the id, and when the process
\* stops at any point during NextID and the store is reopened, later NextID
\* calls return ids strictly greater than every id returned before.
C33_NextIDCrashSafe ==
    /\ (pc[1] = "written" /\ last.op = "NextID")
          => ReadNextID(last.entity) = localNextID[1] + 1
    /\ (last.op = "NextID" /\ last.err = "ok")
          => \A i \in issued[last.entity] : i < last.id

\* C34: whenever FindPath(from,to,maxDepth) returns a path, it is a shortest
\* one: no directed path from `from` to `to` has fewer edges, and the path
\* visits no node twice.
C34_FindPathShortest ==
    (gLast.op = "FindPath" /\ gLast.err = "ok")
        => /\ \A d \in 0..(Len(gLast.path) - 2) :
                 gLast.to \notin ReachableWithin(adjacency, {gLast.from}, d)
           /\ \A i, j \in 1..Len(gLast.path) :
                 i # j => gLast.path[i] # gLast.path[j]

\* a path of two edges was returned on a graph that also has a route of three
\* edges to the same node
C34_Witness ==
    /\ gLast.op = "FindPath"
    /\ gLast.err = "ok"
    /\ gLast.path = <<NodeID("users", 1), NodeID("users", 3), NodeID("users", 5)>>
    /\ NodeID("users", 2) \in NeighborsOf(adjacency, NodeID("users", 1))
    /\ NodeID("users", 4) \in NeighborsOf(adjacency, NodeID("users", 2))
    /\ NodeID("users", 5) \in NeighborsOf(adjacency, NodeID("users", 4))

\* C35: the two backends are interchangeable for Patch: for the same stored
\* document and the same partial, JSONFileStore.Patch and SQLiteStore.Patch
\* leave the same document as read back by Get, also when the partial holds
\* a null value.
C35_PatchSameInBothStores ==
    \A e \in Entities, id \in PairIds : SqlGetResult(e, id) = FileGetResult(e, id)

\* C36: FindPath is deterministic for a given in-memory state: two
\* FindPath(from,to,maxDepth) calls on the same unmodified graph return the
\* same path, also when several shortest paths exist.
C36_FindPathDeterministic ==
    [][(/\ gLast.op = "FindPath"
        /\ gLast'.op = "FindPath"
        /\ gLast'.from = gLast.from
        /\ gLast'.to = gLast.to
        /\ gLast'.maxDepth = gLast.maxDepth
        /\ adjacency' = adjacency)
          => (gLast'.err = gLast.err /\ gLast'.path = gLast.path)]_vars

\* C37: of two Save(e,i,.) calls that run concurrently on the same unoccupied
\* (e,i), in either backend, exactly one returns success and the other
\* returns already-exists, and the stored document is the one supplied by
\* the successful call.
C37_OneSaveWins ==
    (/\ \A p \in SaveCallers : pc[p] = "returned"
     /\ \A p, q \in SaveCallers : local[p].id = local[q].id)
        => /\ Cardinality({p \in SaveCallers : local[p].err = "ok"}) = 1
           /\ \A p \in SaveCallers :
                 local[p].err = "ok"
                    => StoredDoc(local[p].entity, local[p].id)
                          = MarshalDoc(Put(local[p].data, "id", IntNum(local[p].id)))
           /\ \A p \in SaveCallers : local[p].err \in {"ok", "ErrAlreadyExists"}

\* C38: response cache coherence: once a PUT, PATCH or DELETE on (e,id) has
\* returned, every later GET /{e}/{id} returns the state written by that
\* mutation (404 after a delete) and never an older cached version, also
\* when a GET of the same entity was in flight during the mutation.  A GET
\* that starts when no mutation is running answers from the cache on a hit,
\* so the cached responses must then be the stored documents.
C38_CacheCoherent ==
    (\A p \in SaveCallers : pc[p] # "stored")
        => \A key \in DOMAIN cache :
              /\ GetResult(key[1], key[2]).err = "ok"
              /\ cache[key] = GetResult(key[1], key[2]).doc

\* C40: storage.WithTransaction(ctx, store, fn) is all-or-nothing on the
\* SQLite store, which advertises SupportsTransaction = true: if fn returns
\* an error (or panics) after mutations through the transaction handle, the
\* mutations are rolled back and the store is as before the call; if fn
\* returns nil all of them are committed.
C40_WithTransactionAllOrNothing ==
    (SupportsTransaction /\ last.op = "WithTransaction")
        => /\ last.err \in {"error", "panic"} => SqlTables = last.c.before
           /\ last.err = "ok" => SqlTables = last.c.handle

\* a caller whose next lock call cannot return in the current state
Blocked(p) ==
    /\ pc[p] = "running"
    /\ \/ /\ At(p).act = "Lock"
          /\ IF LockOf(At(p).m).waiting = {p}
             THEN LockOf(At(p).m).readers # {}
             ELSE LockOf(At(p).m).writer # 0 \/ LockOf(At(p).m).waiting # {}
       \/ /\ At(p).act = "RLock"
          /\ (LockOf(At(p).m).writer # 0 \/ LockOf(At(p).m).waiting # {})

\* a caller about to take a lock it holds
Reacquires(p) ==
    /\ pc[p] = "running"
    /\ At(p).act \in {"Lock", "RLock"}
    /\ (LockOf(At(p).m).writer = p \/ p \in LockOf(At(p).m).readers)

\* C39: the locking discipline is deadlock-free: under any interleaving of
\* store operations (both backends), id allocation and graph operations, no
\* reachable state has every running operation blocked on a lock; no
\* operation tries to take a lock it already holds; and under fair
\* scheduling every started operation eventually returns.
C39_NoDeadlockAndReturns ==
    /\ []((\E p \in LockCallers : pc[p] = "running")
             => \E p \in LockCallers : pc[p] = "running" /\ ~Blocked(p))
    /\ [](\A p \in LockCallers : ~Reacquires(p))
    /\ \A p \in LockCallers : (pc[p] = "running") ~> (pc[p] = "idle")

\* both callers are inside operations, one holds s.mu or the lock of the
\* entity as a writer and the other waits for it
C39_Witness ==
    /\ \A p \in LockCallers : pc[p] = "running"
    /\ \E p, q \in LockCallers :
          /\ Blocked(q)
          /\ At(q).m \in {"mu", "idLock"}
          /\ LockOf(At(q).m).writer = p

====
